---- MODULE Spec2Model ----
(***************************************************************************)
(* Verification model of the board-pattern-finder geometry and fusion      *)
(* stages: corner-role assignment, fourth-corner solving and quadrilateral *)
(* validation (three_pattern_analyzer.py, flexible_pattern_analyzer.py,    *)
(* production_qr_analyzer.py) and candidate fusion                         *)
(* (enhanced_strict_qr_detector.py).                                       *)
(*                                                                         *)
(* Floating point values are modelled in fixed point: a float v is the     *)
(* integer floor(v * SCALE).  Pixel coordinates stay plain integers.       *)
(***************************************************************************)
EXTENDS Integers, Sequences, FiniteSets, TLC

VARIABLES pc, patterns, positions, fourth_corner, validation, unique_patterns, filtered_patterns,
          line_pixels, binary_image, region, components, analysis_result, grid_size, grid_values

vars == <<pc, patterns, positions, fourth_corner, validation, unique_patterns, filtered_patterns,
          line_pixels, binary_image, region, components, analysis_result, grid_size, grid_values>>

\* the state of the geometry and fusion stages
fusion_vars == <<patterns, positions, fourth_corner, validation, unique_patterns, filtered_patterns>>

\* the state of the per-candidate image analyses and of the grid sampling
image_vars == <<line_pixels, binary_image, region, components, analysis_result, grid_size, grid_values>>

(***************************************************************************)
(* Bounds                                                                  *)
(***************************************************************************)
\* pattern centers of the geometry stage lie on the lattice 0..MaxCoord x 0..MaxCoord
MaxCoord == 3
\* longest candidate list handed to the fusion stage
MaxPatterns == 5

\* fixed-point unit: 1.0 is SCALE
SCALE == 1000

\* Python's None (a record, so that it compares with any result record)
None == [none |-> TRUE]

(***************************************************************************)
(* Arithmetic helpers                                                      *)
(***************************************************************************)
Abs(v) == IF v < 0 THEN -v ELSE v

Max2(a, b) == IF a >= b THEN a ELSE b

Min2(a, b) == IF a <= b THEN a ELSE b

RECURSIVE ISqrtBetween(_, _, _)
\* greatest r in lo..hi with r*r <= n (bisection)
ISqrtBetween(n, lo, hi) ==
    IF lo >= hi THEN lo
    ELSE LET mid == (lo + hi + 1) \div 2
         IN  IF mid * mid <= n THEN ISqrtBetween(n, mid, hi)
             ELSE ISqrtBetween(n, lo, mid - 1)

RECURSIVE FracBetween(_, _, _, _)
\* greatest f in lo..hi with (r*SCALE + f)^2 <= r*r*SCALE^2 + rem
FracBetween(r, rem, lo, hi) ==
    IF lo >= hi THEN lo
    ELSE LET mid == (lo + hi + 1) \div 2
         IN  IF 2 * SCALE * r * mid + mid * mid <= rem THEN FracBetween(r, rem, mid, hi)
             ELSE FracBetween(r, rem, lo, mid - 1)

\* np.sqrt of a non-negative integer, in fixed point: floor(sqrt(n) * SCALE),
\* computed as integer part and fraction to stay within 32-bit integers
np_sqrt(n) ==
    LET r == ISqrtBetween(n, 0, Min2(n, 46340))
    IN  r * SCALE + FracBetween(r, (n - r * r) * SCALE * SCALE, 0, SCALE - 1)

\* float division a / b of two fixed-point values, b # 0
FDiv(a, b) == (a * SCALE) \div b

\* float product of two fixed-point values
FMul(a, b) == (a * b) \div SCALE

\* list.sort(key=...) is stable: the place of element i among keys
Rank(keys, i) ==
    1 + Cardinality({j \in DOMAIN keys :
                        keys[j] < keys[i] \/ (keys[j] = keys[i] /\ j < i)})

\* list.sort(key=..., reverse=True) keeps the original order of equal keys
RankDesc(keys, i) ==
    1 + Cardinality({j \in DOMAIN keys :
                        keys[j] > keys[i] \/ (keys[j] = keys[i] /\ j < i)})

StableSort(s, keys) ==
    [k \in 1..Len(s) |-> s[CHOOSE i \in 1..Len(s) : Rank(keys, i) = k]]

StableSortDesc(s, keys) ==
    [k \in 1..Len(s) |-> s[CHOOSE i \in 1..Len(s) : RankDesc(keys, i) = k]]

(***************************************************************************)
(* Corner-role assignment and fourth-corner solving                        *)
(***************************************************************************)
Coords == 0..MaxCoord

Point == [x : Coords, y : Coords]

\* detection quality stored by the detector under the key 'score'
PatternScores == {900}

\* a pattern in the interchange shape read by the analyzers
GeoPattern == [center : Point, score : PatternScores]

\* identify_pattern_positions without the second sort (by y) of the left pair
identify_pattern_positions_no_y_sort(ps) ==
    IF Len(ps) # 3 THEN None
    ELSE LET pattern_coords == StableSort(ps, [i \in 1..3 |-> ps[i].center.x])
         IN  [top_left    |-> pattern_coords[1],
              bottom_left |-> pattern_coords[2],
              top_right   |-> pattern_coords[3]]

\* identify_pattern_positions: None unless exactly 3 patterns; the rightmost
\* (after a stable sort by x) is top_right, the two leftmost are sorted by y
identify_pattern_positions(ps) ==
    IF Len(ps) # 3 THEN None
    ELSE LET pattern_coords == StableSort(ps, [i \in 1..3 |-> ps[i].center.x])
             left_patterns  == StableSort(SubSeq(pattern_coords, 1, 2),
                                          [i \in 1..2 |-> pattern_coords[i].center.y])
             right_pattern  == pattern_coords[3]
         IN  [top_left    |-> left_patterns[1],
              bottom_left |-> left_patterns[2],
              top_right   |-> right_pattern]

\* BR = TL + BL - TR, exactly as the three analyzers compute it
calculate_fourth_corner(pos) ==
    LET tl == pos.top_left.center
        bl == pos.bottom_left.center
        tr == pos.top_right.center
    IN  [x |-> tl.x + bl.x - tr.x, y |-> tl.y + bl.y - tr.y]

\* the local helper distance(p1, p2) = np.sqrt(dx**2 + dy**2)
distance(p1, p2) ==
    np_sqrt((p2.x - p1.x) * (p2.x - p1.x) + (p2.y - p1.y) * (p2.y - p1.y))

\* shoelace area over corners [tl, tr, br, bl], in fixed point
shoelace_area(tl, tr, br, bl) ==
    LET c == <<tl, tr, br, bl>>
        term(i) == LET j == (i % 4) + 1 IN c[i].x * c[j].y - c[j].x * c[i].y
    IN  (Abs(term(1) + term(2) + term(3) + term(4)) * SCALE) \div 2

\* the measurements shared by all validators
measurements(pos, br) ==
    LET tl == pos.top_left.center
        bl == pos.bottom_left.center
        tr == pos.top_right.center
        top_side    == distance(tl, tr)
        bottom_side == distance(bl, br)
        left_side   == distance(tl, bl)
        right_side  == distance(tr, br)
        width  == (top_side + bottom_side) \div 2
        height == (left_side + right_side) \div 2
    IN  [top_side |-> top_side, bottom_side |-> bottom_side,
         left_side |-> left_side, right_side |-> right_side,
         width |-> width, height |-> height,
         aspect_ratio |-> IF height > 0 THEN FDiv(width, height) ELSE 0,
         area |-> shoelace_area(tl, tr, br, bl)]

\* p.get('total_score', 0): the interchange shape has no 'total_score' key
get_total_score(p) == IF "total_score" \in DOMAIN p THEN p.total_score ELSE 0

\* three_pattern_analyzer.validate_qr_geometry with the aspect bounds made inclusive
three_validate_qr_geometry_closed_aspect(pos, br) ==
    LET m == measurements(pos, br)
        side_consistency ==
            IF Max2(m.top_side, m.bottom_side) = 0 THEN FALSE
            ELSE FDiv(Abs(m.top_side - m.bottom_side), Max2(m.top_side, m.bottom_side)) < 200
        height_consistency ==
            IF Max2(m.left_side, m.right_side) = 0 THEN FALSE
            ELSE FDiv(Abs(m.left_side - m.right_side), Max2(m.left_side, m.right_side)) < 200
        reasonable_aspect == 500 <= m.aspect_ratio /\ m.aspect_ratio <= 2000
    IN  [analyzer |-> "three",
         valid |-> side_consistency /\ height_consistency /\ reasonable_aspect,
         measurements |-> m,
         side_consistency |-> side_consistency,
         height_consistency |-> height_consistency,
         reasonable_aspect |-> reasonable_aspect]

\* three_pattern_analyzer.validate_qr_geometry.  The sides are numpy floats:
\* 0/0 is nan and every comparison with nan is False.
three_validate_qr_geometry(pos, br) ==
    LET m == measurements(pos, br)
        side_consistency ==
            IF Max2(m.top_side, m.bottom_side) = 0 THEN FALSE
            ELSE FDiv(Abs(m.top_side - m.bottom_side), Max2(m.top_side, m.bottom_side)) < 200
        height_consistency ==
            IF Max2(m.left_side, m.right_side) = 0 THEN FALSE
            ELSE FDiv(Abs(m.left_side - m.right_side), Max2(m.left_side, m.right_side)) < 200
        reasonable_aspect == 500 < m.aspect_ratio /\ m.aspect_ratio < 2000
    IN  [analyzer |-> "three",
         valid |-> side_consistency /\ height_consistency /\ reasonable_aspect,
         measurements |-> m,
         side_consistency |-> side_consistency,
         height_consistency |-> height_consistency,
         reasonable_aspect |-> reasonable_aspect]

\* flexible_pattern_analyzer.validate_qr_geometry: tolerance 0.3, zero sides guarded
flexible_validate_qr_geometry(pos, br) ==
    LET m == measurements(pos, br)
        side_consistency ==
            IF Max2(m.top_side, m.bottom_side) > 0
            THEN FDiv(Abs(m.top_side - m.bottom_side), Max2(m.top_side, m.bottom_side)) < 300
            ELSE FALSE
        height_consistency ==
            IF Max2(m.left_side, m.right_side) > 0
            THEN FDiv(Abs(m.left_side - m.right_side), Max2(m.left_side, m.right_side)) < 300
            ELSE FALSE
        reasonable_aspect == 500 < m.aspect_ratio /\ m.aspect_ratio < 2000
    IN  [analyzer |-> "flexible",
         valid |-> side_consistency /\ height_consistency /\ reasonable_aspect,
         measurements |-> m,
         side_consistency |-> side_consistency,
         height_consistency |-> height_consistency,
         reasonable_aspect |-> reasonable_aspect]

\* flexible_pattern_analyzer.score_pattern_combination: the sum of the factors
\* that apply, each weighted 0.25
flexible_score_pattern_combination(ps, br) ==
    LET pos == identify_pattern_positions(ps)
    IN  IF pos = None THEN 0
        ELSE LET m == measurements(pos, br)
                 side_part ==
                     IF Max2(m.top_side, m.bottom_side) > 0
                     THEN (SCALE - FDiv(Abs(m.top_side - m.bottom_side),
                                        Max2(m.top_side, m.bottom_side))) \div 4
                     ELSE 0
                 height_part ==
                     IF Max2(m.left_side, m.right_side) > 0
                     THEN (SCALE - FDiv(Abs(m.left_side - m.right_side),
                                        Max2(m.left_side, m.right_side))) \div 4
                     ELSE 0
                 aspect_part ==
                     IF m.height > 0
                     THEN Max2(0, SCALE - Abs(m.aspect_ratio - SCALE)) \div 4
                     ELSE 0
                 total_pattern_score ==
                     get_total_score(ps[1]) + get_total_score(ps[2]) + get_total_score(ps[3])
                 normalized_pattern_score == Min2(SCALE, total_pattern_score \div 3)
             IN  side_part + height_part + aspect_part + normalized_pattern_score \div 4

\* self.config of ProductionQRThreePatternAnalyzer
min_corner_threshold == 0
max_corner_threshold == 2000
max_aspect_deviation == 1000
min_side_consistency == 700
min_total_score == 500

\* production_qr_analyzer.calculate_quality_metrics
calculate_quality_metrics(pos, br) ==
    LET m == measurements(pos, br)
    IN  [measurements |-> m,
         side_consistency |->
            IF Max2(m.top_side, m.bottom_side) > 0
            THEN SCALE - FDiv(Abs(m.top_side - m.bottom_side), Max2(m.top_side, m.bottom_side))
            ELSE 0,
         height_consistency |->
            IF Max2(m.left_side, m.right_side) > 0
            THEN SCALE - FDiv(Abs(m.left_side - m.right_side), Max2(m.left_side, m.right_side))
            ELSE 0,
         aspect_deviation |-> Abs(m.aspect_ratio - SCALE),
         corner_valid |-> /\ br.x >= min_corner_threshold
                          /\ br.y >= min_corner_threshold
                          /\ br.x <= max_corner_threshold
                          /\ br.y <= max_corner_threshold]

\* production_qr_analyzer.score_pattern_combination
score_pattern_combination(ps, pos, br) ==
    LET q == calculate_quality_metrics(pos, br)
        side_score   == q.side_consistency
        height_score == q.height_consistency
        aspect_score == Max2(0, SCALE - q.aspect_deviation)
        corner_score == IF q.corner_valid THEN SCALE ELSE 0
        avg_pattern_score ==
            (get_total_score(ps[1]) + get_total_score(ps[2]) + get_total_score(ps[3])) \div 3
    IN  (side_score * 25 + height_score * 25 + aspect_score * 25
         + corner_score * 15 + avg_pattern_score * 10) \div 100

\* production_qr_analyzer.validate_qr_geometry(combination)
production_validate_qr_geometry(combination) ==
    LET q == calculate_quality_metrics(combination.positions, combination.fourth_corner)
    IN  /\ combination.score >= min_total_score
        /\ q.side_consistency >= min_side_consistency
        /\ q.height_consistency >= min_side_consistency
        /\ q.aspect_deviation <= max_aspect_deviation
        /\ q.corner_valid

\* the combination find_optimal_pattern_combination builds for one triple
combination_of(ps, pos, br) ==
    [patterns |-> ps, positions |-> pos, fourth_corner |-> br,
     score |-> score_pattern_combination(ps, pos, br)]

\* the result of production analyze_image for a chosen combination
production_result(combo) ==
    LET is_valid == production_validate_qr_geometry(combo)
        q == calculate_quality_metrics(combo.positions, combo.fourth_corner)
    IN  [analyzer |-> "production",
         valid |-> is_valid,
         status |-> IF is_valid THEN "success" ELSE "validation_failed",
         measurements |-> q.measurements,
         quality |-> q,
         combination_score |-> combo.score]

(***************************************************************************)
(* The three-pattern pipeline: identify_pattern_positions, then            *)
(* calculate_fourth_corner, then one analyzer's validation                 *)
(***************************************************************************)
PatternLists == UNION {[1..n -> GeoPattern] : n \in 2..4}

NoValidation == [analyzer |-> "none"]

\* no image analysis and no grid sampling has been started
ImageIdle ==
    /\ line_pixels = <<>>
    /\ binary_image = None
    /\ region = None
    /\ components = None
    /\ analysis_result = None
    /\ grid_size = None
    /\ grid_values = None

InitThree ==
    /\ pc = "start"
    /\ patterns \in PatternLists
    /\ positions = None
    /\ fourth_corner = None
    /\ validation = NoValidation
    /\ unique_patterns = <<>>
    /\ filtered_patterns = <<>>
    /\ ImageIdle

IdentifyPatternPositions ==
    /\ pc = "start"
    /\ positions' = identify_pattern_positions(patterns)
    /\ pc' = IF positions' = None THEN "no_positions" ELSE "identified"
    /\ UNCHANGED <<patterns, fourth_corner, validation, unique_patterns, filtered_patterns>>
    /\ UNCHANGED image_vars

CalculateFourthCorner ==
    /\ pc = "identified"
    /\ fourth_corner' = calculate_fourth_corner(positions)
    /\ pc' = "corner"
    /\ UNCHANGED <<patterns, positions, validation, unique_patterns, filtered_patterns>>
    /\ UNCHANGED image_vars

ValidateThree ==
    /\ pc = "corner"
    /\ validation' = three_validate_qr_geometry(positions, fourth_corner)
    /\ pc' = "validated"
    /\ UNCHANGED <<patterns, positions, fourth_corner, unique_patterns, filtered_patterns>>
    /\ UNCHANGED image_vars

ValidateFlexible ==
    /\ pc = "corner"
    /\ validation' = flexible_validate_qr_geometry(positions, fourth_corner)
    /\ pc' = "validated"
    /\ UNCHANGED <<patterns, positions, fourth_corner, unique_patterns, filtered_patterns>>
    /\ UNCHANGED image_vars

ValidateProduction ==
    /\ pc = "corner"
    /\ validation' = production_result(combination_of(patterns, positions, fourth_corner))
    /\ pc' = "validated"
    /\ UNCHANGED <<patterns, positions, fourth_corner, unique_patterns, filtered_patterns>>
    /\ UNCHANGED image_vars

NextThree ==
    \/ IdentifyPatternPositions
    \/ CalculateFourthCorner
    \/ ValidateThree
    \/ ValidateFlexible
    \/ ValidateProduction

SpecThree == InitThree /\ [][NextThree]_vars

(***************************************************************************)
(* The validators as functions of any role assignment and any fourth       *)
(* corner on the lattice 0..QuadCoord x 0..QuadCoord                       *)
(***************************************************************************)
QuadCoord == 2

QuadPoint == [x : 0..QuadCoord, y : 0..QuadCoord]

InitQuad ==
    /\ pc = "corner"
    /\ \E tl \in QuadPoint, tr \in QuadPoint, bl \in QuadPoint :
          /\ positions = [top_left    |-> [center |-> tl, score |-> 900],
                          bottom_left |-> [center |-> bl, score |-> 900],
                          top_right   |-> [center |-> tr, score |-> 900]]
          /\ patterns = <<positions.top_left, positions.top_right, positions.bottom_left>>
    /\ fourth_corner \in QuadPoint
    /\ validation = NoValidation
    /\ unique_patterns = <<>>
    /\ filtered_patterns = <<>>
    /\ ImageIdle

NextQuad ==
    \/ ValidateThree
    \/ ValidateFlexible
    \/ ValidateProduction

SpecQuad == InitQuad /\ [][NextQuad]_vars

(***************************************************************************)
(* The production analysis of one image: analyze_image with               *)
(* find_optimal_pattern_combination over all triples of the patterns       *)
(***************************************************************************)
\* itertools.combinations(range(n), 3): the index triples i < j < k in
\* lexicographic order
combinations(n) ==
    LET all == {t \in (1..n) \X (1..n) \X (1..n) : t[1] < t[2] /\ t[2] < t[3]}
        before(u, t) == \/ u[1] < t[1]
                        \/ (u[1] = t[1] /\ u[2] < t[2])
                        \/ (u[1] = t[1] /\ u[2] = t[2] /\ u[3] < t[3])
    IN  [r \in 1..Cardinality(all) |->
            CHOOSE t \in all : Cardinality({u \in all : before(u, t)}) = r - 1]

\* the combination built for the triple combo of patterns (positions is never
\* None for three patterns)
combination_for(combo) ==
    LET pos == identify_pattern_positions(combo)
    IN  combination_of(combo, pos, calculate_fourth_corner(pos))

\* the combination built for the index triple t of the patterns ps
combination_at(ps, t) == combination_for(<<ps[t[1]], ps[t[2]], ps[t[3]]>>)

\* "if score > best_score" for one candidate: bests holds the combinations
\* that can be best_combination so far, empty while best_score is still -1.
\* The float64 scores of two triples whose fixed-point scores are equal may
\* differ in either direction, so on a tie the candidate may replace the best
\* or not; all of bests have the same fixed-point score
better_combinations(bests, candidate) ==
    IF bests = {}
    THEN IF candidate.score > -SCALE THEN {candidate} ELSE {}
    ELSE IF \A best \in bests : candidate.score > best.score THEN {candidate}
         ELSE IF \E best \in bests : candidate.score = best.score
              THEN bests \cup {candidate}
              ELSE bests

RECURSIVE best_combination_loop(_, _, _, _)
\* "for combo in combinations_to_test" from index k on
best_combination_loop(ps, combos, k, bests) ==
    IF k > Len(combos) THEN bests
    ELSE best_combination_loop(ps, combos, k + 1,
                               better_combinations(bests, combination_at(ps, combos[k])))

\* "return best_combination": None when it was never assigned
returned_combinations(bests) == IF bests = {} THEN {None} ELSE bests

\* the search restricted to exactly three patterns
find_optimal_pattern_combination_three_only(ps) ==
    IF Len(ps) # 3 THEN {None}
    ELSE returned_combinations(best_combination_loop(ps, combinations(3), 1, {}))

\* production_qr_analyzer.find_optimal_pattern_combination: the values it can
\* return (None when best_combination is never assigned)
find_optimal_pattern_combination(ps) ==
    IF Len(ps) < 3 THEN {None}
    ELSE returned_combinations(best_combination_loop(ps, combinations(Len(ps)), 1, {}))

\* production_qr_analyzer.analyze_image: the returned result, for the
\* combination find_optimal_pattern_combination returned
analyze_image(ps, optimal_combo) ==
    IF Len(ps) < 3
    THEN [analyzer |-> "production", status |-> "insufficient_patterns", valid |-> FALSE]
    ELSE IF optimal_combo = None
         THEN [analyzer |-> "production", status |-> "no_valid_combination",
               valid |-> FALSE]
         ELSE [selected_patterns |-> optimal_combo.patterns,
               pattern_positions |-> optimal_combo.positions,
               fourth_corner |-> optimal_combo.fourth_corner]
              @@ production_result(optimal_combo)

\* most patterns stored for one image
MaxDetected == 4

\* the patterns the detector stores: centers in the first two columns and the
\* last column of the lattice
DetectedPatterns == {p \in GeoPattern : p.center.x \in {0, 1, MaxCoord}}

\* the detection results of an image before a pattern is stored
InitProduction ==
    /\ pc = "start"
    /\ patterns = <<>>
    /\ positions = None
    /\ fourth_corner = None
    /\ validation = NoValidation
    /\ unique_patterns = <<>>
    /\ filtered_patterns = <<>>
    /\ ImageIdle

\* the detector stores one more pattern in data['patterns'], with its center
\* and its quality under the key 'score'
StorePattern ==
    /\ pc = "start"
    /\ Len(patterns) < MaxDetected
    /\ \E p \in DetectedPatterns : patterns' = Append(patterns, p)
    /\ UNCHANGED <<pc, positions, fourth_corner, validation, unique_patterns,
                   filtered_patterns>>
    /\ UNCHANGED image_vars

\* analyze_image(image_name, data)
AnalyzeImage ==
    /\ pc = "start"
    /\ \E optimal_combo \in find_optimal_pattern_combination(patterns) :
          validation' = analyze_image(patterns, optimal_combo)
    /\ positions' = IF "pattern_positions" \in DOMAIN validation'
                    THEN validation'.pattern_positions ELSE None
    /\ fourth_corner' = IF "fourth_corner" \in DOMAIN validation'
                        THEN validation'.fourth_corner ELSE None
    /\ pc' = "analysed"
    /\ UNCHANGED <<patterns, unique_patterns, filtered_patterns>>
    /\ UNCHANGED image_vars

NextProduction ==
    \/ StorePattern
    \/ AnalyzeImage

SpecProduction == InitProduction /\ [][NextProduction]_vars

(***************************************************************************)
(* Candidate fusion (enhanced_strict_qr_detector.py)                       *)
(***************************************************************************)
\* np.mean of a non-empty list of fixed-point values
RECURSIVE SumSeq(_)
SumSeq(s) == IF s = <<>> THEN 0 ELSE Head(s) + SumSeq(Tail(s))

np_mean(s) == SumSeq(s) \div Len(s)

\* np.std (population standard deviation) of a non-empty list
np_std(s) ==
    LET m == np_mean(s)
    IN  ISqrtBetween(SumSeq([i \in 1..Len(s) |-> (s[i] - m) * (s[i] - m)]) \div Len(s),
                     0, SCALE)

\* [r['score'] for r in line_results if r['score'] > 0]
RECURSIVE positive_scores(_)
positive_scores(line_results) ==
    IF line_results = <<>> THEN <<>>
    ELSE IF Head(line_results).score > 0
         THEN <<Head(line_results).score>> \o positive_scores(Tail(line_results))
         ELSE positive_scores(Tail(line_results))

\* the fusion with the weights of concentric and symmetry exchanged
pattern_structure_symmetry_heavy(concentric_score, line_results, symmetry_score) ==
    LET line_scores == positive_scores(line_results)
        line_pattern_score == IF line_scores # <<>> THEN np_mean(line_scores) ELSE 0
    IN  [score |-> (concentric_score * 20 + line_pattern_score * 40 + symmetry_score * 40) \div 100,
         concentric |-> [score |-> concentric_score],
         line_results |-> line_results,
         line_pattern_score |-> line_pattern_score,
         symmetry_score |-> symmetry_score,
         valid_directions |-> Len(line_scores)]

\* the result of analyze_strict_qr_pattern_structure for given component results:
\* final_score = concentric * 0.40 + line_pattern_score * 0.40 + symmetry * 0.20
pattern_structure(concentric_score, line_results, symmetry_score) ==
    LET line_scores == positive_scores(line_results)
        line_pattern_score == IF line_scores # <<>> THEN np_mean(line_scores) ELSE 0
    IN  [score |-> (concentric_score * 40 + line_pattern_score * 40 + symmetry_score * 20) \div 100,
         concentric |-> [score |-> concentric_score],
         line_results |-> line_results,
         line_pattern_score |-> line_pattern_score,
         symmetry_score |-> symmetry_score,
         valid_directions |-> Len(line_scores)]

\* the pattern dict built by find_qr_patterns_multi_threshold for an accepted candidate
detected_pattern(center, size, method, analysis) ==
    [center |-> center, size |-> size, score |-> analysis.score,
     method |-> method, analysis |-> analysis]

LineResults(scores) == [i \in 1..Len(scores) |-> [score |-> scores[i]]]

\* the candidates an image yields: a chain of close detections (100,100),
\* (118,100), (135,100) found by several thresholding methods, and three more
\* between 30 and 50 px from (135,100) that are at least 50 px from each other
\* and from (100,100)
CandidatePool ==
    { detected_pattern(<<100, 100>>, 20, "otsu",
          pattern_structure(900, LineResults(<<1000, 1000, 1000, 1000>>), 1000)),
      detected_pattern(<<118, 100>>, 20, "fixed_127",
          pattern_structure(1000, LineResults(<<1000, 1000, 1000, 1000>>), 1000)),
      detected_pattern(<<135, 100>>, 22, "otsu",
          pattern_structure(1000, LineResults(<<1000, 1000, 1000, 1000>>), 1000)),
      detected_pattern(<<180, 100>>, 20, "adaptive_gaussian",
          pattern_structure(800, LineResults(<<1000, 700, 300, 0>>), 600)),
      detected_pattern(<<135, 145>>, 16, "otsu",
          pattern_structure(800, LineResults(<<1000, 1000, 0, 0>>), 800)),
      detected_pattern(<<135, 55>>, 90, "otsu_clean",
          pattern_structure(600, LineResults(<<700, 700, 700, 700>>), 800)) }

\* np.sqrt((cx1 - cx2)**2 + (cy1 - cy2)**2) of two center tuples
center_distance(c1, c2) ==
    np_sqrt((c1[1] - c2[1]) * (c1[1] - c2[1]) + (c1[2] - c2[2]) * (c1[2] - c2[2]))

duplicate_distance == 20

\* list.remove(v): drops the first element equal to v
remove_first(s, v) ==
    LET i == CHOOSE k \in 1..Len(s) : s[k] = v /\ \A j \in 1..(k - 1) : s[j] # v
    IN  SubSeq(s, 1, i - 1) \o SubSeq(s, i + 1, Len(s))

\* a duplicate replaces the kept pattern also when the scores are equal
replaces_existing_on_tie(pattern, existing) == pattern.score >= existing.score

\* a duplicate replaces the kept pattern when it scores lower
replaces_existing_if_worse(pattern, existing) == pattern.score < existing.score

\* "if pattern['score'] > existing['score']"
replaces_existing(pattern, existing) == pattern.score > existing.score

RECURSIVE remove_duplicate_loop(_, _, _)
\* the loop "for pattern in patterns" from index k on, with the list unique so far
remove_duplicate_loop(ps, k, unique) ==
    IF k > Len(ps) THEN unique
    ELSE LET pattern == ps[k]
             hits == {i \in 1..Len(unique) :
                         center_distance(pattern.center, unique[i].center)
                             < duplicate_distance * SCALE}
         IN  IF hits = {} THEN remove_duplicate_loop(ps, k + 1, Append(unique, pattern))
             ELSE LET existing == unique[CHOOSE i \in hits : \A j \in hits : i <= j]
                  IN  IF replaces_existing(pattern, existing)
                      THEN remove_duplicate_loop(ps, k + 1,
                               Append(remove_first(unique, existing), pattern))
                      ELSE remove_duplicate_loop(ps, k + 1, unique)

remove_duplicate_patterns(ps) ==
    IF ps = <<>> THEN <<>> ELSE remove_duplicate_loop(ps, 1, <<>>)

\* the secondary quality signal and combined score of select_best_qr_patterns
enhance(pattern) ==
    LET analysis == pattern.analysis
        direction_score == Min2((analysis.valid_directions * SCALE) \div 4, SCALE)
        line_scores == positive_scores(analysis.line_results)
        line_part == IF line_scores # <<>> THEN Max2(0, SCALE - np_std(line_scores)) * 2 ELSE 0
        size_score == IF 15 <= pattern.size /\ pattern.size <= 80 THEN 1000
                      ELSE IF 10 <= pattern.size /\ pattern.size <= 120 THEN 700
                      ELSE 300
        concentric_score == analysis.concentric.score
        method_score == IF pattern.method \in {"otsu", "otsu_original"} THEN 1000
                        ELSE IF pattern.method \in {"adaptive_mean", "adaptive_gaussian"} THEN 900
                        ELSE 700
        qr_quality_score == (direction_score * 3 + line_part + size_score * 2
                             + concentric_score * 2 + method_score) \div 10
    IN  [center |-> pattern.center, size |-> pattern.size, score |-> pattern.score,
         method |-> pattern.method, analysis |-> pattern.analysis,
         qr_quality_score |-> qr_quality_score,
         combined_score |-> (pattern.score * 6 + qr_quality_score * 4) \div 10,
         direction_score |-> direction_score,
         size_score |-> size_score]

min_distance == 50

relaxed_distance == 30

\* the inner loop compared with the first selected pattern only
too_close_first_only(pattern, final_patterns, dist) ==
    /\ final_patterns # <<>>
    /\ center_distance(pattern.center, final_patterns[1].center) < dist * SCALE

\* the inner loop "for existing in final_patterns: if distance < ...: too_close = True"
too_close(pattern, final_patterns, dist) ==
    \E i \in 1..Len(final_patterns) :
        center_distance(pattern.center, final_patterns[i].center) < dist * SCALE

RECURSIVE strict_pass(_, _, _)
\* the first selection loop from index k on; stops at 4 selections
strict_pass(enhanced, k, final_patterns) ==
    IF k > Len(enhanced) THEN final_patterns
    ELSE IF too_close(enhanced[k], final_patterns, min_distance)
         THEN strict_pass(enhanced, k + 1, final_patterns)
         ELSE LET grown == Append(final_patterns, enhanced[k])
              IN  IF Len(grown) >= 4 THEN grown ELSE strict_pass(enhanced, k + 1, grown)

RECURSIVE relaxed_pass_without_stop(_, _, _)
\* the second loop without "if len(final_patterns) >= 4: break"
relaxed_pass_without_stop(enhanced, k, final_patterns) ==
    IF k > Len(enhanced) THEN final_patterns
    ELSE IF \E i \in 1..Len(final_patterns) : final_patterns[i] = enhanced[k]
         THEN relaxed_pass_without_stop(enhanced, k + 1, final_patterns)
         ELSE IF too_close(enhanced[k], final_patterns, relaxed_distance)
              THEN relaxed_pass_without_stop(enhanced, k + 1, final_patterns)
              ELSE relaxed_pass_without_stop(enhanced, k + 1, Append(final_patterns, enhanced[k]))

RECURSIVE relaxed_pass(_, _, _)
\* the second loop (relaxed distance), run when fewer than 3 were selected
relaxed_pass(enhanced, k, final_patterns) ==
    IF k > Len(enhanced) THEN final_patterns
    ELSE IF \E i \in 1..Len(final_patterns) : final_patterns[i] = enhanced[k]
         THEN relaxed_pass(enhanced, k + 1, final_patterns)
         ELSE IF too_close(enhanced[k], final_patterns, relaxed_distance)
              THEN relaxed_pass(enhanced, k + 1, final_patterns)
              ELSE LET grown == Append(final_patterns, enhanced[k])
                   IN  IF Len(grown) >= 4 THEN grown ELSE relaxed_pass(enhanced, k + 1, grown)

\* enhanced_patterns after "enhanced_patterns.sort(key=combined_score, reverse=True)"
enhanced_patterns(ps) ==
    LET enhanced == [i \in 1..Len(ps) |-> enhance(ps[i])]
    IN  StableSortDesc(enhanced, [i \in 1..Len(ps) |-> enhanced[i].combined_score])

select_best_qr_patterns(ps) ==
    IF Len(ps) <= 4 THEN ps
    ELSE LET enhanced == enhanced_patterns(ps)
             first == strict_pass(enhanced, 1, <<>>)
         IN  IF Len(first) < 3 THEN relaxed_pass(enhanced, 1, first) ELSE first

\* the candidate lists of all thresholding methods, concatenated
CandidateLists == UNION {[1..n -> CandidatePool] : n \in 0..MaxPatterns}

InitFusion ==
    /\ pc = "start"
    /\ patterns \in CandidateLists
    /\ positions = None
    /\ fourth_corner = None
    /\ validation = NoValidation
    /\ unique_patterns = <<>>
    /\ filtered_patterns = <<>>
    /\ ImageIdle

\* find_qr_patterns_multi_threshold: unique_patterns = remove_duplicate_patterns(all_patterns)
RemoveDuplicatePatterns ==
    /\ pc = "start"
    /\ unique_patterns' = remove_duplicate_patterns(patterns)
    /\ pc' = "unique"
    /\ UNCHANGED <<patterns, positions, fourth_corner, validation, filtered_patterns>>
    /\ UNCHANGED image_vars

\* find_qr_patterns_multi_threshold: sort by score, then select_best_qr_patterns
SortAndSelect ==
    /\ pc = "unique"
    /\ LET sorted == StableSortDesc(unique_patterns,
                        [i \in 1..Len(unique_patterns) |-> unique_patterns[i].score])
       IN  /\ unique_patterns' = sorted
           /\ filtered_patterns' = select_best_qr_patterns(sorted)
    /\ pc' = "filtered"
    /\ UNCHANGED <<patterns, positions, fourth_corner, validation>>
    /\ UNCHANGED image_vars

\* select_best_qr_patterns applied to a candidate list as given
SelectBestQrPatterns ==
    /\ pc = "start"
    /\ filtered_patterns' = select_best_qr_patterns(patterns)
    /\ pc' = "selected"
    /\ UNCHANGED <<patterns, positions, fourth_corner, validation, unique_patterns>>
    /\ UNCHANGED image_vars

NextFusion ==
    \/ RemoveDuplicatePatterns
    \/ SortAndSelect
    \/ SelectBestQrPatterns

SpecFusion == InitFusion /\ [][NextFusion]_vars

(***************************************************************************)
(* Deduplication alone: remove_duplicate_patterns on the candidates of     *)
(* several thresholding methods around one finder pattern                  *)
(***************************************************************************)
\* detections of one finder pattern by several methods: (100,100) and
\* (105,102) with equal scores, (118,100) within 20 px of (100,100) and of
\* (135,100), which are 35 px apart, and one pattern far away; the scores of
\* (100,100), (118,100), (135,100) and (200,100) are pairwise distinct
ChainPool ==
    { detected_pattern(<<100, 100>>, 20, "otsu",
          pattern_structure(900, LineResults(<<1000, 1000, 1000, 1000>>), 1000)),
      detected_pattern(<<105, 102>>, 22, "adaptive_mean",
          pattern_structure(900, LineResults(<<1000, 1000, 1000, 1000>>), 1000)),
      detected_pattern(<<118, 100>>, 20, "fixed_127",
          pattern_structure(1000, LineResults(<<1000, 1000, 1000, 1000>>), 1000)),
      detected_pattern(<<135, 100>>, 16, "otsu",
          pattern_structure(800, LineResults(<<1000, 1000, 0, 0>>), 800)),
      detected_pattern(<<200, 100>>, 20, "adaptive_gaussian",
          pattern_structure(800, LineResults(<<1000, 700, 300, 0>>), 600)) }

ChainLists == UNION {[1..n -> ChainPool] : n \in 0..MaxPatterns}

RECURSIVE remove_duplicate_trace(_, _, _, _)
\* the loop of remove_duplicate_patterns from index k on, recording every
\* pattern that leaves or never enters the unique list together with the
\* pattern retained in its place at that moment
remove_duplicate_trace(ps, k, unique, dropped) ==
    IF k > Len(ps) THEN [unique |-> unique, dropped |-> dropped]
    ELSE LET pattern == ps[k]
             hits == {i \in 1..Len(unique) :
                         center_distance(pattern.center, unique[i].center)
                             < duplicate_distance * SCALE}
         IN  IF hits = {} THEN remove_duplicate_trace(ps, k + 1, Append(unique, pattern), dropped)
             ELSE LET existing == unique[CHOOSE i \in hits : \A j \in hits : i <= j]
                  IN  IF replaces_existing(pattern, existing)
                      THEN remove_duplicate_trace(ps, k + 1,
                               Append(remove_first(unique, existing), pattern),
                               Append(dropped, [pattern |-> existing, retained |-> pattern]))
                      ELSE remove_duplicate_trace(ps, k + 1, unique,
                               Append(dropped, [pattern |-> pattern, retained |-> existing]))

InitDedupe ==
    /\ pc = "start"
    /\ patterns \in ChainLists
    /\ positions = None
    /\ fourth_corner = None
    /\ validation = NoValidation
    /\ unique_patterns = <<>>
    /\ filtered_patterns = <<>>
    /\ ImageIdle

NextDedupe == RemoveDuplicatePatterns

SpecDedupe == InitDedupe /\ [][NextDedupe]_vars

(***************************************************************************)
(* Line analysis: analyze_strict_qr_line_pattern                           *)
(* (enhanced_strict_qr_detector.py)                                        *)
(***************************************************************************)
MaxMult == 3

MaxUnit == 4

\* EnhancedStrictQRDetector(ratio_tolerance=0.22)
ratio_tolerance == 220

\* binary_line = [0 if p < threshold else 1 for p in line_pixels] with
\* threshold = np.mean(line_pixels); p < mean is decided exactly as p * n < sum
binary_line(pixels) ==
    [i \in 1..Len(pixels) |-> IF pixels[i] * Len(pixels) < SumSeq(pixels) THEN 0 ELSE 1]

RECURSIVE find_runs(_, _, _, _)
\* the run-finding loop from index i on; a run is <<value, length>>
find_runs(bl, i, current_value, current_length) ==
    IF i > Len(bl) THEN << <<current_value, current_length>> >>
    ELSE IF bl[i] = current_value
         THEN find_runs(bl, i + 1, current_value, current_length + 1)
         ELSE << <<current_value, current_length>> >> \o find_runs(bl, i + 1, bl[i], 1)

expected_pattern == <<0, 1, 0, 1, 0>>

\* ideal_ratios = [1/8, 1/8, 3/8, 1/8, 1/8]
ideal_ratios == <<SCALE \div 8, SCALE \div 8, (3 * SCALE) \div 8, SCALE \div 8, SCALE \div 8>>

\* one term of ratio_score: 1.0 / 0.7 / 0.3 / 0 by deviation band
deviation_points(deviation) ==
    IF 2 * deviation < ratio_tolerance THEN 1000
    ELSE IF deviation < ratio_tolerance THEN 700
    ELSE IF 2 * deviation < 3 * ratio_tolerance THEN 300
    ELSE 0

analyze_strict_qr_line_pattern(pixels, direction_name) ==
    IF Len(pixels) < 11
    THEN [score |-> 0, reason |-> "insufficient length", direction |-> direction_name]
    ELSE
    LET bl == binary_line(pixels)
        runs == find_runs(bl, 2, bl[1], 1)
        base == [direction |-> direction_name, runs |-> runs,
                 total_runs |-> Len(runs), line_length |-> Len(pixels)]
        rejected(why) == [direction |-> direction_name, runs |-> runs,
                          total_runs |-> Len(runs), line_length |-> Len(pixels),
                          score |-> 0, reason |-> why]
    IN  IF Len(runs) < 5 THEN rejected("only runs, need 5+")
        ELSE IF runs[1][1] # 0 THEN rejected("does not start with black")
        ELSE IF \E i \in 1..5 : runs[i][1] # expected_pattern[i]
             THEN rejected("pattern breaks at position")
        ELSE
        LET lengths == [i \in 1..5 |-> runs[i][2]]
            total_length == SumSeq(lengths)
            ratios == [i \in 1..5 |-> FDiv(lengths[i], total_length)]
            deviations == [i \in 1..5 |-> Abs(ratios[i] - ideal_ratios[i])]
            ratio_matches == Cardinality({i \in 1..5 : 2 * deviations[i] < ratio_tolerance})
            ratio_score == SumSeq([i \in 1..5 |-> deviation_points(deviations[i])]) \div 5
            center_ratio == ratios[3]
            side_ratios == <<ratios[1], ratios[2], ratios[4], ratios[5]>>
            max_side == Max2(Max2(side_ratios[1], side_ratios[2]),
                             Max2(side_ratios[3], side_ratios[4]))
            center_dominant == center_ratio * 10 > max_side * 11
            side_variation == np_std(side_ratios)
            side_consistent == side_variation < 80
            final_score == ratio_score + (IF center_dominant THEN 200 ELSE 0)
                                       + (IF side_consistent THEN 100 ELSE 0)
        IN  [direction |-> direction_name, runs |-> runs,
             total_runs |-> Len(runs), line_length |-> Len(pixels),
             score |-> Min2(SCALE, final_score),
             ratios |-> ratios,
             ideal_ratios |-> ideal_ratios,
             deviations |-> deviations,
             ratio_matches |-> ratio_matches,
             center_dominant |-> center_dominant,
             side_consistent |-> side_consistent,
             side_variation |-> side_variation]

\* the pixels of a line of a binarized image (values 0 and 255): runs of
\* alternating colour, the i-th of length mults[i] * unit
RECURSIVE run_pixels(_, _, _)
run_pixels(mults, unit, value) ==
    IF mults = <<>> THEN <<>>
    ELSE [i \in 1..(Head(mults) * unit) |-> value] \o run_pixels(Tail(mults), unit, 255 - value)

RunCounts == {1, 4, 5, 6}

Lines ==
    { run_pixels(mults, unit, start) :
        mults \in UNION {[1..n -> 1..MaxMult] : n \in RunCounts},
        unit \in 1..MaxUnit,
        start \in {0, 255} }

InitLine ==
    /\ pc = "start"
    /\ line_pixels \in Lines
    /\ binary_image = None
    /\ region = None
    /\ components = None
    /\ analysis_result = None
    /\ grid_size = None
    /\ grid_values = None
    /\ patterns = <<>>
    /\ positions = None
    /\ fourth_corner = None
    /\ validation = NoValidation
    /\ unique_patterns = <<>>
    /\ filtered_patterns = <<>>

AnalyzeStrictQrLinePattern ==
    /\ pc = "start"
    /\ analysis_result' = analyze_strict_qr_line_pattern(line_pixels, "horizontal")
    /\ pc' = "line_analysed"
    /\ UNCHANGED <<line_pixels, binary_image, region, components, grid_size, grid_values>>
    /\ UNCHANGED fusion_vars

NextLine == AnalyzeStrictQrLinePattern

SpecLine == InitLine /\ [][NextLine]_vars

(***************************************************************************)
(* Binarized images and the candidate regions analysed in them             *)
(* (enhanced_strict_qr_detector.py)                                        *)
(***************************************************************************)
MaxCenterNoise == 4

MaxFlips == 25

\* h, w = binary_image.shape
ImageSize == 24

\* the finder pattern of the synthetic images is centred on the corner
\* shared by the pixels (16,16) and (17,17)
PatternCenter == 17

\* binary_image[y, x]
pixel(img, y, x) == img[y][x]

image_height(img) == Cardinality(DOMAIN img)

image_width(img) == Cardinality(DOMAIN img[0])

\* four times the squared distance of the middle of pixel (x, y) from the pattern centre
QuadSqDist(x, y) ==
    (2 * x + 1 - 2 * PatternCenter) * (2 * x + 1 - 2 * PatternCenter)
    + (2 * y + 1 - 2 * PatternCenter) * (2 * y + 1 - 2 * PatternCenter)

\* the bands of a finder pattern: dark disk, light ring, dark ring, light outside
band(x, y) ==
    IF QuadSqDist(x, y) <= 34 THEN "center"
    ELSE IF QuadSqDist(x, y) <= 100 THEN "first_ring"
    ELSE IF QuadSqDist(x, y) <= 200 THEN "second_ring"
    ELSE "outside"

\* the pixels of the center sampling disc of radius 2 around the pattern centre
CenterDisc ==
    {p \in ((PatternCenter - 2)..(PatternCenter + 2)) \X ((PatternCenter - 2)..(PatternCenter + 2)) :
        (p[1] - PatternCenter) * (p[1] - PatternCenter)
        + (p[2] - PatternCenter) * (p[2] - PatternCenter) <= 4}

\* the number of pixels of the set s that come before (x, y) in row-major order
rank_in(s, x, y) == Cardinality({p \in s : p[2] < y \/ (p[2] = y /\ p[1] < x)})

\* the upper left quadrant of the 10 x 10 region around the pattern centre
UpperLeftQuadrant ==
    ((PatternCenter - 5)..(PatternCenter - 1)) \X ((PatternCenter - 5)..(PatternCenter - 1))

\* a binarized finder pattern with defects: the first center_noise pixels of
\* the center disc are light, the first ring is dark above row PatternCenter + first_cut,
\* the second ring is light above row PatternCenter + second_cut, and the first
\* flips pixels of the upper left quadrant are inverted (mirrored: together with
\* their mirror images in the other three quadrants)
finder_image(center_noise, first_cut, second_cut, flips, mirrored) ==
    [y \in 0..(ImageSize - 1) |-> [x \in 0..(ImageSize - 1) |->
        LET clean == IF band(x, y) \in {"center", "second_ring"} THEN 0 ELSE 255
            noisy ==
                \/ (<<x, y>> \in CenterDisc /\ rank_in(CenterDisc, x, y) < center_noise)
                \/ (band(x, y) = "first_ring" /\ y < PatternCenter + first_cut)
                \/ (band(x, y) = "second_ring" /\ y < PatternCenter + second_cut)
            fx == IF mirrored THEN Min2(x, 2 * PatternCenter - 1 - x) ELSE x
            fy == IF mirrored THEN Min2(y, 2 * PatternCenter - 1 - y) ELSE y
            inverted == <<fx, fy>> \in UpperLeftQuadrant
                        /\ rank_in(UpperLeftQuadrant, fx, fy) < flips
            dark == ((clean = 0) # noisy) # inverted
        IN  IF dark THEN 0 ELSE 255]]

FirstCuts == {-ImageSize, -2, 0, 1, 2}

SecondCuts == {-ImageSize, -4, -3, -1, 1}

Images ==
    { finder_image(n, c1, c2, 0, FALSE) :
        n \in 0..MaxCenterNoise, c1 \in FirstCuts, c2 \in SecondCuts }
    \cup { finder_image(0, -ImageSize, -ImageSize, f, m) : f \in 1..MaxFlips, m \in BOOLEAN }

\* the candidate centres (cx, cy) and radii handed to the analyses
Centers ==
    { <<PatternCenter, PatternCenter>>, <<PatternCenter + 1, PatternCenter>>,
      <<PatternCenter, PatternCenter + 1>>, <<PatternCenter + 2, PatternCenter + 2>>,
      <<ImageSize - 1, PatternCenter>>, <<ImageSize, PatternCenter>> }

Radii == {4, 5, 7, 14}

Regions == { [cx |-> c[1], cy |-> c[2], radius |-> r] : c \in Centers, r \in Radii }

(***************************************************************************)
(* Symmetry analysis: analyze_pattern_symmetry                             *)
(***************************************************************************)
\* the left half compared with the right half flipped one column off
horizontal_differences_off_by_one(img, x1, y1, x2, y2) ==
    LET mid_w == (x2 - x1) \div 2
    IN  Cardinality({p \in (0..(mid_w - 1)) \X (y1..(y2 - 1)) :
            pixel(img, p[2], x1 + p[1]) # pixel(img, p[2], x1 + 2 * mid_w - 2 - p[1])})

\* the number of pixel pairs that differ between the left half of the region
\* and the flipped right half: columns x1 + i and x1 + 2 * mid_w - 1 - i
horizontal_differences(img, x1, y1, x2, y2) ==
    LET mid_w == (x2 - x1) \div 2
    IN  Cardinality({p \in (0..(mid_w - 1)) \X (y1..(y2 - 1)) :
            pixel(img, p[2], x1 + p[1]) # pixel(img, p[2], x1 + 2 * mid_w - 1 - p[1])})

\* the same between the top half and the flipped bottom half
vertical_differences(img, x1, y1, x2, y2) ==
    LET mid_h == (y2 - y1) \div 2
    IN  Cardinality({p \in (x1..(x2 - 1)) \X (0..(mid_h - 1)) :
            pixel(img, y1 + p[2], p[1]) # pixel(img, y1 + 2 * mid_h - 1 - p[2], p[1])})

\* the graduated score with inclusive lower bounds
symmetry_final_score_inclusive(same, pairs, rounded_up) ==
    IF 10 * same >= 8 * pairs THEN SCALE
    ELSE IF 10 * same >= 7 * pairs THEN 800
    ELSE IF 10 * same >= 6 * pairs THEN 600
    ELSE IF 10 * same >= 5 * pairs THEN 400
    ELSE 0

\* final_score by the bands of symmetry_score: > 0.8 -> 1.0, > 0.7 -> 0.8,
\* > 0.6 -> 0.6, > 0.5 -> 0.4, else 0.  The exact value of symmetry_score is
\* same / pairs; rounded_up says that the float64 sum of the two similarities
\* came out above the exact value, which matters only on a band boundary.
symmetry_final_score(same, pairs, rounded_up) ==
    LET above(tenths) == \/ 10 * same > tenths * pairs
                         \/ (10 * same = tenths * pairs /\ rounded_up)
    IN  IF above(8) THEN SCALE
        ELSE IF above(7) THEN 800
        ELSE IF above(6) THEN 600
        ELSE IF above(5) THEN 400
        ELSE 0

\* the roundings float64 can produce for (horizontal + vertical) / 2: two equal
\* similarities average to themselves exactly, two different ones may round up
float_roundings(h_diff, half_w_size, v_diff, half_h_size) ==
    IF h_diff * half_h_size = v_diff * half_w_size THEN {FALSE} ELSE {FALSE, TRUE}

analyze_pattern_symmetry(img, cx, cy, radius, rounded_up) ==
    LET h == image_height(img)
        w == image_width(img)
        size == Min2(radius * 2, 40)
        half_size == size \div 2
        x1 == Max2(0, cx - half_size)
        y1 == Max2(0, cy - half_size)
        x2 == Min2(w, cx + half_size)
        y2 == Min2(h, cy + half_size)
    IN  IF x2 - x1 < 10 \/ y2 - y1 < 10
        THEN [score |-> 0, reason |-> "region too small"]
        ELSE
        LET region_w == x2 - x1
            region_h == y2 - y1
            mid_w == region_w \div 2
            mid_h == region_h \div 2
            \* the halves have mid_w * region_h and region_w * mid_h pixels
            half_w_size == mid_w * region_h
            half_h_size == region_w * mid_h
            h_diff == horizontal_differences(img, x1, y1, x2, y2)
            v_diff == vertical_differences(img, x1, y1, x2, y2)
            horizontal_similarity ==
                IF half_w_size > 0 THEN FDiv(half_w_size - h_diff, half_w_size) ELSE 0
            vertical_similarity ==
                IF half_h_size > 0 THEN FDiv(half_h_size - v_diff, half_h_size) ELSE 0
            \* symmetry_score = (horizontal + vertical) / 2, kept as an exact fraction
            same == (half_w_size - h_diff) * half_h_size + (half_h_size - v_diff) * half_w_size
            pairs == 2 * half_w_size * half_h_size
        IN  [score |-> symmetry_final_score(same, pairs, rounded_up),
             horizontal_similarity |-> horizontal_similarity,
             vertical_similarity |-> vertical_similarity,
             combined_symmetry |-> FDiv(same, pairs),
             region_size |-> <<region_w, region_h>>]

\* the roundings possible for the region analyze_pattern_symmetry extracts
symmetry_roundings(img, cx, cy, radius) ==
    LET half_size == Min2(radius * 2, 40) \div 2
        x1 == Max2(0, cx - half_size)
        y1 == Max2(0, cy - half_size)
        x2 == Min2(image_width(img), cx + half_size)
        y2 == Min2(image_height(img), cy + half_size)
    IN  IF x2 - x1 < 10 \/ y2 - y1 < 10 THEN {FALSE}
        ELSE float_roundings(horizontal_differences(img, x1, y1, x2, y2),
                             ((x2 - x1) \div 2) * (y2 - y1),
                             vertical_differences(img, x1, y1, x2, y2),
                             (x2 - x1) * ((y2 - y1) \div 2))

(***************************************************************************)
(* Concentric structure: check_strict_concentric_structure                 *)
(***************************************************************************)
\* np.cos(np.radians(a)) * 10^6 for a = 0, 5, ..., 90
cos_table ==
    <<1000000, 996194, 984807, 965925, 939692, 906307, 866025, 819152, 766044, 707106,
      642787, 573576, 500000, 422618, 342020, 258819, 173648, 87155, 0>>

\* np.cos(np.radians(angle)) * 10^6 for a multiple of 5 in 0..355
cos_micro(angle) ==
    IF angle <= 90 THEN cos_table[angle \div 5 + 1]
    ELSE IF angle <= 180 THEN -cos_table[(180 - angle) \div 5 + 1]
    ELSE IF angle <= 270 THEN -cos_table[(angle - 180) \div 5 + 1]
    ELSE cos_table[(360 - angle) \div 5 + 1]

sin_micro(angle) == cos_micro((angle + 270) % 360)

\* (int(cx + r * cos(angle)), int(cy + r * sin(angle))) for angle in range(0, 360, 5)
ring_points(cx, cy, r) ==
    [k \in 1..72 |-> <<cx + ((r * cos_micro(5 * (k - 1))) \div 1000000),
                       cy + ((r * sin_micro(5 * (k - 1))) \div 1000000)>>]

\* the radii without the scaling near the border
ring_radii_unscaled(w, h, cx, cy, radius) ==
    LET base_radius == (radius * 2) \div 14
    IN  [center |-> Max2(2, base_radius),
         first  |-> Max2(4, base_radius * 3),
         second |-> Max2(6, base_radius * 6)]

\* the radii after "if second_ring_r > max_safe_radius: scale down"
ring_radii(w, h, cx, cy, radius) ==
    LET estimated_size == radius * 2
        base_radius == estimated_size \div 14
        center_radius == Max2(2, base_radius)
        first_ring_r == Max2(4, base_radius * 3)
        second_ring_r == Max2(6, base_radius * 6)
        max_safe_radius == Min2(Min2(cx, cy), Min2(w - cx - 1, h - cy - 1))
    IN  IF second_ring_r > max_safe_radius
        THEN [center |-> Max2(2, (center_radius * max_safe_radius) \div second_ring_r),
              first  |-> (first_ring_r * max_safe_radius) \div second_ring_r,
              second |-> (second_ring_r * max_safe_radius) \div second_ring_r]
        ELSE [center |-> center_radius, first |-> first_ring_r, second |-> second_ring_r]

\* the in-image pixels of the circular center sampling
center_pixels(img, cx, cy, center_radius) ==
    {p \in ((cx - center_radius)..(cx + center_radius)) \X ((cy - center_radius)..(cy + center_radius)) :
        /\ (p[1] - cx) * (p[1] - cx) + (p[2] - cy) * (p[2] - cy) <= center_radius * center_radius
        /\ 0 <= p[1] /\ p[1] < image_width(img)
        /\ 0 <= p[2] /\ p[2] < image_height(img)}

\* ring_info with the light samples counted as dark
ring_info_light_counted(img, cx, cy, r) ==
    LET pts == ring_points(cx, cy, r)
        inside == {k \in 1..72 : /\ 0 <= pts[k][1] /\ pts[k][1] < image_width(img)
                                 /\ 0 <= pts[k][2] /\ pts[k][2] < image_height(img)}
        dark == {k \in inside : pixel(img, pts[k][2], pts[k][1]) >= 127}
    IN  [radius |-> r,
         dark_ratio |-> IF inside = {} THEN 0 ELSE FDiv(Cardinality(dark), Cardinality(inside)),
         dark_count |-> Cardinality(dark),
         total_pixels |-> Cardinality(inside)]

\* one entry of ring_info: the samples of the ring of radius r that fall in the image
ring_info(img, cx, cy, r) ==
    LET pts == ring_points(cx, cy, r)
        inside == {k \in 1..72 : /\ 0 <= pts[k][1] /\ pts[k][1] < image_width(img)
                                 /\ 0 <= pts[k][2] /\ pts[k][2] < image_height(img)}
        dark == {k \in inside : pixel(img, pts[k][2], pts[k][1]) < 127}
    IN  [radius |-> r,
         dark_ratio |-> IF inside = {} THEN 0 ELSE FDiv(Cardinality(dark), Cardinality(inside)),
         dark_count |-> Cardinality(dark),
         total_pixels |-> Cardinality(inside)]

first_ring_score(ring) ==
    IF 10 * ring.dark_count <= 3 * ring.total_pixels THEN 1000
    ELSE IF 10 * ring.dark_count <= 4 * ring.total_pixels THEN 800
    ELSE IF 10 * ring.dark_count <= 5 * ring.total_pixels THEN 600
    ELSE IF 10 * ring.dark_count <= 6 * ring.total_pixels THEN 300
    ELSE 0

second_ring_score(ring) ==
    IF 10 * ring.dark_count >= 8 * ring.total_pixels THEN 1000
    ELSE IF 10 * ring.dark_count >= 7 * ring.total_pixels THEN 900
    ELSE IF 10 * ring.dark_count >= 6 * ring.total_pixels THEN 700
    ELSE IF 10 * ring.dark_count >= 5 * ring.total_pixels THEN 400
    ELSE 0

center_score(dark_count, total) ==
    IF 10 * dark_count >= 9 * total THEN 1000
    ELSE IF 10 * dark_count >= 8 * total THEN 950
    ELSE FDiv(dark_count, total)

\* minimum_quality = 0.6
minimum_quality == 600

\* the acceptance floor applied only to non-positive quality
below_minimum_quality_zero_only(quality_score) == quality_score <= 0

\* "if quality_score < minimum_quality"
below_minimum_quality(quality_score) == quality_score < minimum_quality

check_strict_concentric_structure(img, cx, cy, radius) ==
    LET h == image_height(img)
        w == image_width(img)
    IN  IF cx < 0 \/ cx >= w \/ cy < 0 \/ cy >= h
        THEN [score |-> 0, reason |-> "center out of bounds"]
        ELSE
        LET radii == ring_radii(w, h, cx, cy, radius)
        IN  IF radii.first < 3 \/ radii.second < 5
            THEN [score |-> 0, reason |-> "pattern too small for reliable ring analysis"]
            ELSE
            LET cpix == center_pixels(img, cx, cy, radii.center)
                center_dark_count == Cardinality({p \in cpix : pixel(img, p[2], p[1]) < 127})
                center_dark_ratio == FDiv(center_dark_count, Cardinality(cpix))
                first_ring == ring_info(img, cx, cy, radii.first)
                second_ring == ring_info(img, cx, cy, radii.second)
                component_scores ==
                    [center |-> center_score(center_dark_count, Cardinality(cpix)),
                     first_ring |-> first_ring_score(first_ring),
                     second_ring |-> second_ring_score(second_ring)]
                quality_score == (component_scores.center * 25 + component_scores.first_ring * 50
                                  + component_scores.second_ring * 25) \div 100
            IN  IF Cardinality(cpix) < 4
                THEN [score |-> 0, reason |-> "insufficient center samples"]
                ELSE IF 10 * center_dark_count < 7 * Cardinality(cpix)
                THEN [score |-> 0, reason |-> "center not dark enough",
                      center_dark_ratio |-> center_dark_ratio,
                      radii_used |-> radii]
                ELSE IF first_ring.total_pixels < 30
                THEN [score |-> 0, reason |-> "insufficient ring 1 samples"]
                ELSE IF second_ring.total_pixels < 30
                THEN [score |-> 0, reason |-> "insufficient ring 2 samples"]
                ELSE IF below_minimum_quality(quality_score)
                THEN [score |-> 0, reason |-> "insufficient pattern quality",
                      center_dark_ratio |-> center_dark_ratio,
                      rings |-> <<first_ring, second_ring>>,
                      component_scores |-> component_scores,
                      quality_score |-> quality_score,
                      radii_used |-> radii]
                ELSE [score |-> quality_score,
                      center_dark_ratio |-> center_dark_ratio,
                      rings |-> <<first_ring, second_ring>>,
                      component_scores |-> component_scores,
                      quality_score |-> quality_score,
                      validation |-> "PASS",
                      radii_used |-> radii]

(***************************************************************************)
(* Structure analysis of one candidate: analyze_strict_qr_pattern_structure *)
(* and the acceptance test of find_qr_patterns_multi_threshold             *)
(***************************************************************************)
\* directions = [(1, 0, "horizontal"), (0, 1, "vertical"), (1, 1, "diagonal"),
\*               (1, -1, "anti-diagonal")]
directions ==
    << <<1, 0, "horizontal">>, <<0, 1, "vertical">>,
       <<1, 1, "diagonal">>, <<1, -1, "anti-diagonal">> >>

RECURSIVE extract_line(_, _, _, _, _, _, _)
\* the in-image pixels binary_image[cy + i * dy, cx + i * dx] for i = from .. to
extract_line(img, cx, cy, dx, dy, from, to) ==
    IF from > to THEN <<>>
    ELSE LET x == cx + from * dx
             y == cy + from * dy
             rest == extract_line(img, cx, cy, dx, dy, from + 1, to)
         IN  IF 0 <= x /\ x < image_width(img) /\ 0 <= y /\ y < image_height(img)
             THEN <<pixel(img, y, x)>> \o rest
             ELSE rest

RECURSIVE analyse_directions(_, _, _, _, _)
\* line_results of the directions from index k on; a line of at most 10 pixels
\* is skipped
analyse_directions(img, cx, cy, max_range, k) ==
    IF k > Len(directions) THEN <<>>
    ELSE LET pixels == extract_line(img, cx, cy, directions[k][1], directions[k][2],
                                    -max_range, max_range)
             rest == analyse_directions(img, cx, cy, max_range, k + 1)
         IN  IF Len(pixels) > 10
             THEN <<analyze_strict_qr_line_pattern(pixels, directions[k][3])>> \o rest
             ELSE rest

analyze_strict_qr_pattern_structure(img, cx, cy, size, rounded_up) ==
    LET h == image_height(img)
        w == image_width(img)
    IN  IF cx < 0 \/ cx >= w \/ cy < 0 \/ cy >= h
        THEN [score |-> 0, reason |-> "center out of bounds"]
        ELSE
        LET radius == Min2(size \div 2, Min2(Min2(cx, cy), Min2(w - cx - 1, h - cy - 1)))
        IN  IF radius < 5
            THEN [score |-> 0, reason |-> "radius too small"]
            ELSE
            LET concentric_result == check_strict_concentric_structure(img, cx, cy, radius)
                symmetry_result == analyze_pattern_symmetry(img, cx, cy, radius, rounded_up)
                line_results == analyse_directions(img, cx, cy, Min2(radius, 30), 1)
                fused == pattern_structure(concentric_result.score, line_results,
                                           symmetry_result.score)
            IN  [score |-> fused.score,
                 concentric |-> concentric_result,
                 symmetry |-> symmetry_result,
                 line_results |-> line_results,
                 line_pattern_score |-> fused.line_pattern_score,
                 symmetry_score |-> symmetry_result.score,
                 valid_directions |-> fused.valid_directions]

\* the roundings possible for the symmetry analysis inside the structure analysis
structure_roundings(img, cx, cy, size) ==
    LET h == image_height(img)
        w == image_width(img)
    IN  IF cx < 0 \/ cx >= w \/ cy < 0 \/ cy >= h THEN {FALSE}
        ELSE symmetry_roundings(img, cx, cy,
                 Min2(size \div 2, Min2(Min2(cx, cy), Min2(w - cx - 1, h - cy - 1))))

\* a candidate is kept from a score of 0.5 on
accepts_at_threshold(pattern_result) == pattern_result.score >= 500

\* "if pattern_result['score'] > 0.5"; the comparison is made on the fixed-point
\* score, which identifies float64 sums less than 1 / SCALE apart
accepts(pattern_result) == pattern_result.score > 500

InitImage ==
    /\ pc = "start"
    /\ binary_image \in Images
    /\ region \in Regions
    /\ line_pixels = <<>>
    /\ components = None
    /\ analysis_result = None
    /\ grid_size = None
    /\ grid_values = None
    /\ patterns = <<>>
    /\ positions = None
    /\ fourth_corner = None
    /\ validation = NoValidation
    /\ unique_patterns = <<>>
    /\ filtered_patterns = <<>>

AnalyzePatternSymmetry ==
    /\ pc = "start"
    /\ \E rounded_up \in symmetry_roundings(binary_image, region.cx, region.cy, region.radius) :
          analysis_result' = analyze_pattern_symmetry(binary_image, region.cx, region.cy,
                                                      region.radius, rounded_up)
    /\ pc' = "symmetry"
    /\ UNCHANGED <<line_pixels, binary_image, region, components, grid_size, grid_values>>
    /\ UNCHANGED fusion_vars

CheckStrictConcentricStructure ==
    /\ pc = "start"
    /\ analysis_result' =
           check_strict_concentric_structure(binary_image, region.cx, region.cy, region.radius)
    /\ pc' = "concentric"
    /\ UNCHANGED <<line_pixels, binary_image, region, components, grid_size, grid_values>>
    /\ UNCHANGED fusion_vars

\* the loop body of find_qr_patterns_multi_threshold for one candidate of
\* bounding size 2 * radius: analyse its structure and keep it if it is accepted
AnalyzeCandidate ==
    /\ pc = "start"
    /\ \E rounded_up \in structure_roundings(binary_image, region.cx, region.cy, region.radius * 2) :
          analysis_result' = analyze_strict_qr_pattern_structure(binary_image, region.cx, region.cy,
                                                                 region.radius * 2, rounded_up)
    /\ patterns' = IF accepts(analysis_result')
                   THEN Append(patterns, detected_pattern(<<region.cx, region.cy>>,
                                                          region.radius * 2, "otsu", analysis_result'))
                   ELSE patterns
    /\ pc' = "candidate"
    /\ UNCHANGED <<line_pixels, binary_image, region, components, grid_size, grid_values>>
    /\ UNCHANGED <<positions, fourth_corner, validation, unique_patterns, filtered_patterns>>

NextImage ==
    \/ AnalyzePatternSymmetry
    \/ CheckStrictConcentricStructure
    \/ AnalyzeCandidate

SpecImage == InitImage /\ [][NextImage]_vars

(***************************************************************************)
(* Grid sampling (qr_rectangle_detector.py)                                *)
(***************************************************************************)
\* largest grid width and height sampled
MaxGrid == 12

\* the warped image is target_size x target_size pixels
target_size == 420

\* the binarized warped image holds a white (255) rectangle
\* [0, white_w) x [0, white_h) on black (0); the extents the images take
WhiteExtents == {0, 26, 105, 210, 420}

WarpedImages == [white_w : WhiteExtents, white_h : WhiteExtents]

\* binary[y, x]
warped_pixel(binary, y, x) ==
    IF x < binary.white_w /\ y < binary.white_h THEN 255 ELSE 0

\* "cell_w = 420 // grid_w", "cell_h = 420 // grid_h" and the cell boundaries
\* y1, y2, x1, x2 of cell (i, j)
cell_bounds(gs, i, j) ==
    LET cell_w == target_size \div gs.grid_w
        cell_h == target_size \div gs.grid_h
    IN  [y1 |-> i * cell_h, y2 |-> (i + 1) * cell_h,
         x1 |-> j * cell_w, x2 |-> (j + 1) * cell_w]

\* the sum of the pixels of binary[y1:y2, x1:x2] and their number; the slice
\* ends at the image border
cell_pixels(binary, b) ==
    LET xs == Max2(0, Min2(b.x2, target_size) - b.x1)
        ys == Max2(0, Min2(b.y2, target_size) - b.y1)
        white_xs == Max2(0, Min2(Min2(b.x2, target_size), binary.white_w) - b.x1)
        white_ys == Max2(0, Min2(Min2(b.y2, target_size), binary.white_h) - b.y1)
    IN  [sum |-> 255 * white_xs * white_ys, count |-> xs * ys]

\* "1 if mean_value > 127 else 0" with mean_value = np.mean(cell)
cell_value(binary, b) ==
    LET c == cell_pixels(binary, b)
    IN  IF c.sum > 127 * c.count THEN 1 ELSE 0

\* grid_values[i, j] for i in range(grid_h), j in range(grid_w)
extract_grid_cells(binary, gs) ==
    [i \in 0..(gs.grid_h - 1) |->
        [j \in 0..(gs.grid_w - 1) |-> cell_value(binary, cell_bounds(gs, i, j))]]

\* "0 if mean_value > 127 else 1" with mean_value = np.mean(cell)
border_cell_value(binary, b) ==
    LET c == cell_pixels(binary, b)
    IN  IF c.sum > 127 * c.count THEN 0 ELSE 1

\* cell_info of cell (i, j); mean_intensity is sum / count in fixed point,
\* computed from the quotient and the remainder to stay within 32 bits
cell_info(binary, gs, i, j) ==
    LET b == cell_bounds(gs, i, j)
        c == cell_pixels(binary, b)
    IN  [position |-> <<i, j>>,
         value |-> border_cell_value(binary, b),
         mean_intensity |-> (c.sum \div c.count) * SCALE
                            + ((c.sum % c.count) * SCALE) \div c.count,
         pixel_coords |-> <<<<b.x1, b.y1>>, <<b.x2, b.y2>>>>]

\* "if i == 0"
in_top_row(gs, c) == c.position[1] = 0

\* "if i == grid_h-1"
in_bottom_row(gs, c) == c.position[1] = gs.grid_h - 1

\* "if j == 0", the corner cells of the column included
in_left_column_with_corners(gs, c) == c.position[2] = 0

\* "if j == 0 and i != 0 and i != grid_h-1"
in_left_column(gs, c) ==
    c.position[2] = 0 /\ c.position[1] # 0 /\ c.position[1] # gs.grid_h - 1

\* "if j == grid_w-1 and i != 0 and i != grid_h-1"
in_right_column(gs, c) ==
    /\ c.position[2] = gs.grid_w - 1
    /\ c.position[1] # 0 /\ c.position[1] # gs.grid_h - 1

\* a top-row or bottom-row cell with "j == 0 or j == grid_w-1"; is_corner
\* keeps a cell that is in both rows from being appended twice
in_corners(gs, c) ==
    /\ in_top_row(gs, c) \/ in_bottom_row(gs, c)
    /\ c.position[2] = 0 \/ c.position[2] = gs.grid_w - 1

RECURSIVE sum_values(_, _)
\* sum(cell['value'] for cell in cells[k:])
sum_values(cells, k) ==
    IF k > Len(cells) THEN 0 ELSE cells[k].value + sum_values(cells, k + 1)

\* [cell['value'] for cell in cells]
values_of(cells) == [k \in 1..Len(cells) |-> cells[k].value]

\* GridSystem.extract_border_cells on the binarized warped image: the cells
\* are visited row by row and appended to the lists they belong to
extract_border_cells(binary, gs) ==
    LET visited == [k \in 1..(gs.grid_w * gs.grid_h) |->
                       cell_info(binary, gs, (k - 1) \div gs.grid_w, (k - 1) % gs.grid_w)]
        top == SelectSeq(visited, LAMBDA c : in_top_row(gs, c))
        bottom == SelectSeq(visited, LAMBDA c : in_bottom_row(gs, c))
        left == SelectSeq(visited, LAMBDA c : in_left_column(gs, c))
        right == SelectSeq(visited, LAMBDA c : in_right_column(gs, c))
        corners == SelectSeq(visited, LAMBDA c : in_corners(gs, c))
    IN  [border_cells |-> [top |-> top, bottom |-> bottom, left |-> left,
                           right |-> right, corners |-> corners],
         summary |-> [top_pattern |-> values_of(top),
                      bottom_pattern |-> values_of(bottom),
                      left_pattern |-> values_of(left),
                      right_pattern |-> values_of(right),
                      corner_pattern |-> values_of(corners),
                      total_border_cells |-> Len(top) + Len(bottom) + Len(left) + Len(right),
                      black_border_cells |-> sum_values(top, 1) + sum_values(bottom, 1)
                                             + sum_values(left, 1) + sum_values(right, 1),
                      grid_size |-> gs]]

InitGrid ==
    /\ pc = "start"
    /\ binary_image \in WarpedImages
    /\ grid_size \in [grid_w : 1..MaxGrid, grid_h : 1..MaxGrid]
    /\ grid_values = None
    /\ line_pixels = <<>>
    /\ region = None
    /\ components = None
    /\ analysis_result = None
    /\ patterns = <<>>
    /\ positions = None
    /\ fourth_corner = None
    /\ validation = NoValidation
    /\ unique_patterns = <<>>
    /\ filtered_patterns = <<>>

\* GridSystem.extract_grid_cells on the binarized warped image
ExtractGridCells ==
    /\ pc = "start"
    /\ grid_values' = extract_grid_cells(binary_image, grid_size)
    /\ pc' = "grid_extracted"
    /\ UNCHANGED <<line_pixels, binary_image, region, components, analysis_result, grid_size>>
    /\ UNCHANGED fusion_vars

\* GridSystem.extract_border_cells on the same image and grid size, before or
\* after extract_grid_cells
ExtractBorderCells ==
    /\ pc \in {"start", "grid_extracted"}
    /\ analysis_result' = extract_border_cells(binary_image, grid_size)
    /\ pc' = "border_extracted"
    /\ UNCHANGED <<line_pixels, binary_image, region, components, grid_size, grid_values>>
    /\ UNCHANGED fusion_vars

NextGrid ==
    \/ ExtractGridCells
    \/ ExtractBorderCells

SpecGrid == InitGrid /\ [][NextGrid]_vars

(***************************************************************************)
(* Properties of the geometry stage                                        *)
(***************************************************************************)
\* squared side lengths (exact integers) of the quadrilateral TL, TR, BR, BL
SqDist(p1, p2) == (p2.x - p1.x) * (p2.x - p1.x) + (p2.y - p1.y) * (p2.y - p1.y)

TopSq    == SqDist(positions.top_left.center, positions.top_right.center)
BottomSq == SqDist(positions.bottom_left.center, fourth_corner)
LeftSq   == SqDist(positions.top_left.center, positions.bottom_left.center)
RightSq  == SqDist(positions.top_right.center, fourth_corner)

\* the roles are the corners TL=(x,y), TR=(x+w,y), BL=(x,y+h) of an upright rectangle
UprightRoles ==
    LET tl == positions.top_left.center
        tr == positions.top_right.center
        bl == positions.bottom_left.center
    IN  /\ tr.y = tl.y /\ tr.x > tl.x
        /\ bl.x = tl.x /\ bl.y > tl.y

\* the corner opposite to top_left in the upright rectangle
UprightBottomRight ==
    [x |-> positions.top_right.center.x, y |-> positions.bottom_left.center.y]

Collinear(a, b, c) == (b.x - a.x) * (c.y - a.y) - (b.y - a.y) * (c.x - a.x) = 0

\* C1: for roles TL=(x,y), TR=(x+w,y), BL=(x,y+h) with w>0 and h>0,
\* calculate_fourth_corner returns exactly BR=(x+w,y+h).
C1_FourthCornerOfUprightRectangle ==
    (pc = "corner" /\ UprightRoles) => fourth_corner = UprightBottomRight

\* C2: three candidates at the top-left, top-right and bottom-left corners of
\* an upright square, in any input order, get the roles TL, TR, BL, the fourth
\* square corner as bottom_right, aspect_ratio 1.0 and valid = true from the
\* three-pattern analyzer.
C2_EndToEndUprightSquare ==
    LET cs == {patterns[i].center : i \in DOMAIN patterns}
    IN  (/\ pc = "validated"
         /\ validation.analyzer = "three"
         /\ \E x \in Coords, y \in Coords, w \in 1..MaxCoord :
               cs = {[x |-> x, y |-> y], [x |-> x + w, y |-> y], [x |-> x, y |-> y + w]})
        => /\ UprightRoles
           /\ fourth_corner = UprightBottomRight
           /\ validation.measurements.aspect_ratio = SCALE
           /\ validation.valid

\* C3: for every role assignment of three non-collinear centers the
\* quadrilateral built with the computed fourth corner is a parallelogram, so
\* calculate_quality_metrics reports side_consistency = height_consistency = 1.0.
C3_ComputedQuadIsParallelogram ==
    (/\ pc = "validated"
     /\ validation.analyzer = "production"
     /\ ~Collinear(positions.top_left.center, positions.top_right.center,
                   positions.bottom_left.center))
    => /\ TopSq = BottomSq
       /\ LeftSq = RightSq
       /\ validation.quality.side_consistency = SCALE
       /\ validation.quality.height_consistency = SCALE

Permutations3 == {f \in [1..3 -> 1..3] : {f[i] : i \in 1..3} = 1..3}

\* C7: identify_pattern_positions returns None unless the input holds exactly
\* 3 patterns; for 3 patterns the roles are a permutation of the input,
\* top_right has the greatest x and top_left has y <= the y of bottom_left.
C7_RoleAssignment ==
    (pc # "start") =>
        IF Len(patterns) # 3 THEN positions = None
        ELSE /\ positions # None
             /\ \E f \in Permutations3 :
                   /\ positions.top_left = patterns[f[1]]
                   /\ positions.bottom_left = patterns[f[2]]
                   /\ positions.top_right = patterns[f[3]]
             /\ positions.top_right.center.x >= positions.top_left.center.x
             /\ positions.top_right.center.x >= positions.bottom_left.center.x
             /\ positions.top_left.center.y <= positions.bottom_left.center.y

\* the roles were assigned against the input order: the first pattern given is
\* top_right and, of the two left ones, the later one is top_left
C7_Witness ==
    /\ pc = "identified"
    /\ positions.top_right = patterns[1]
    /\ positions.top_left = patterns[3]
    /\ positions.bottom_left = patterns[2]
    /\ patterns[3].center.x > patterns[2].center.x
    /\ patterns[3].center.y < patterns[2].center.y

\* opposite sides of the quadrilateral have equal, non-zero length
EqualOppositeSides ==
    /\ TopSq = BottomSq /\ LeftSq = RightSq
    /\ TopSq > 0 /\ LeftSq > 0

\* C8 as stated: the aspect-ratio check of the three-pattern and flexible
\* validators accepts the closed interval [0.5, 2.0]: a quadrilateral with
\* equal opposite sides whose width/height is exactly 2.0 or exactly 0.5 is valid.
C8_ClosedAspectInterval ==
    (/\ pc = "validated"
     /\ validation.analyzer \in {"three", "flexible"}
     /\ EqualOppositeSides
     /\ TopSq <= 4 * LeftSq /\ 4 * TopSq >= LeftSq)
    => validation.valid

\* C8 amended: the check accepts the open interval (0.5, 2.0): a quadrilateral
\* with equal opposite sides is valid exactly when 0.5 < width/height < 2.0,
\* so a ratio of exactly 2.0 or exactly 0.5 is reported not valid.
C8_OpenAspectInterval ==
    (/\ pc = "validated"
     /\ validation.analyzer \in {"three", "flexible"}
     /\ EqualOppositeSides)
    => (validation.valid <=> (TopSq < 4 * LeftSq /\ 4 * TopSq > LeftSq))

\* a 2:1 rectangle (width/height exactly 2.0) was validated and rejected
C8_Witness ==
    /\ pc = "validated"
    /\ validation.analyzer = "three"
    /\ EqualOppositeSides
    /\ TopSq = 4 * LeftSq
    /\ validation.measurements.aspect_ratio = 2 * SCALE
    /\ ~validation.valid

\* C9: in every analyzer the geometry is not valid whenever the computed
\* fourth corner lies outside the sane coordinate range, in particular
\* whenever it has a negative x or y coordinate.
C9_CornerOutOfRangeIsInvalid ==
    (/\ pc = "validated"
     /\ \/ fourth_corner.x < min_corner_threshold
        \/ fourth_corner.y < min_corner_threshold
        \/ fourth_corner.x > max_corner_threshold
        \/ fourth_corner.y > max_corner_threshold)
    => ~validation.valid

\* C10: the production validator returns True only for combinations whose
\* aspect ratio width/height lies within [0.5, 2.0].
C10_ProductionAspectWithinBounds ==
    (/\ pc = "validated"
     /\ validation.analyzer = "production"
     /\ validation.valid)
    => /\ validation.measurements.aspect_ratio >= 500
       /\ validation.measurements.aspect_ratio <= 2000

(***************************************************************************)
(* Properties of candidate fusion                                          *)
(***************************************************************************)
\* squared center distance (exact) of two detector patterns
SqCenterDist(p, q) ==
    (p.center[1] - q.center[1]) * (p.center[1] - q.center[1])
    + (p.center[2] - q.center[2]) * (p.center[2] - q.center[2])

\* every two patterns at distinct places of the list are at least d px apart
PairwiseApart(s, d) ==
    \A i \in 1..Len(s) : \A j \in 1..Len(s) :
        i < j => SqCenterDist(s[i], s[j]) >= d * d

\* every two distinct patterns of the list are at least d px apart
DistinctPairwiseApart(s, d) ==
    \A i \in 1..Len(s) : \A j \in 1..Len(s) :
        s[i] # s[j] => SqCenterDist(s[i], s[j]) >= d * d

\* the list select_best_qr_patterns was called with
SelectInput == IF pc = "selected" THEN patterns ELSE unique_patterns

Selected == pc \in {"selected", "filtered"}

\* a 50 px pass over the input leaves fewer than 3 patterns
StrictPassLeftFewerThan3 == Len(strict_pass(enhanced_patterns(SelectInput), 1, <<>>)) < 3

\* C4 as stated: for every input list (any length), every two patterns returned
\* by select_best_qr_patterns are >= 50 px apart, or >= 30 px apart where the
\* 50 px pass left fewer than 3 patterns.
C4_MinSeparationAnyLength ==
    Selected =>
        IF StrictPassLeftFewerThan3
        THEN DistinctPairwiseApart(filtered_patterns, relaxed_distance)
        ELSE DistinctPairwiseApart(filtered_patterns, min_distance)

\* C4 amended: the separation holds for every input list of more than 4
\* candidates; a list of at most 4 is returned as given.
C4_MinSeparationAboveFour ==
    (Selected /\ Len(SelectInput) > 4) =>
        IF StrictPassLeftFewerThan3 THEN PairwiseApart(filtered_patterns, relaxed_distance)
        ELSE PairwiseApart(filtered_patterns, min_distance)

\* of more than 4 candidates the relaxed pass returned two less than 50 px apart
C4_Witness ==
    /\ pc = "selected"
    /\ Len(patterns) > 4
    /\ StrictPassLeftFewerThan3
    /\ Len(filtered_patterns) >= 3
    /\ ~PairwiseApart(filtered_patterns, min_distance)
    /\ PairwiseApart(filtered_patterns, relaxed_distance)

\* C5: in the list returned by remove_duplicate_patterns no two distinct
\* patterns have centers closer than the duplicate distance of 20 px.
C5_NoDuplicatesLeft ==
    (pc = "unique") => DistinctPairwiseApart(unique_patterns, duplicate_distance)

\* C6: given exactly two patterns less than 20 px apart, in either order,
\* remove_duplicate_patterns returns exactly one pattern, the one with the
\* higher score (the first one when the scores are equal).
C6_TwoCloseFuseToBetter ==
    (/\ pc = "unique"
     /\ Len(patterns) = 2
     /\ SqCenterDist(patterns[1], patterns[2]) < duplicate_distance * duplicate_distance)
    => unique_patterns =
          <<IF patterns[2].score > patterns[1].score THEN patterns[2] ELSE patterns[1]>>

\* two distinct close patterns were fused and the second, better one was kept
C6_Witness ==
    /\ pc = "unique"
    /\ Len(patterns) = 2
    /\ patterns[1].center # patterns[2].center
    /\ SqCenterDist(patterns[1], patterns[2]) < duplicate_distance * duplicate_distance
    /\ patterns[2].score > patterns[1].score
    /\ unique_patterns = <<patterns[2]>>

(***************************************************************************)
(* Properties of the selection                                             *)
(***************************************************************************)
\* the entries of the input pattern dict, without the keys the selection adds
original_fields(p) ==
    [center |-> p.center, size |-> p.size, score |-> p.score,
     method |-> p.method, analysis |-> p.analysis]

\* the number of places of s whose original entries are those of v
Occurrences(s, v) == Cardinality({i \in 1..Len(s) : original_fields(s[i]) = v})

\* C18: for every input list, select_best_qr_patterns returns at most 4
\* patterns, each of them taken from the input list and none of them twice
\* (no pattern is returned more often than the input list holds it).
C18_AtMostFourFromInput ==
    Selected =>
        /\ Len(filtered_patterns) <= 4
        /\ \A i \in 1..Len(filtered_patterns) :
              LET v == original_fields(filtered_patterns[i])
              IN  /\ Occurrences(SelectInput, v) >= 1
                  /\ Occurrences(filtered_patterns, v) <= Occurrences(SelectInput, v)
        /\ Len(SelectInput) > 4 =>
              \A i \in 1..Len(filtered_patterns) : \A j \in 1..Len(filtered_patterns) :
                  i # j => filtered_patterns[i] # filtered_patterns[j]

\* five candidates at least 30 px apart were given and the selection stopped at
\* 4 of them, in the relaxed pass
C18_Witness ==
    /\ pc = "selected"
    /\ Len(patterns) > 4
    /\ PairwiseApart(patterns, relaxed_distance)
    /\ StrictPassLeftFewerThan3
    /\ Len(filtered_patterns) = 4

\* C19: when more than 4 candidates are given, the returned list is in
\* non-increasing order of combined_score, also when the relaxed 30 px pass
\* added patterns.
C19_RankedByCombinedScore ==
    (Selected /\ Len(SelectInput) > 4) =>
        \A i \in 1..Len(filtered_patterns) : \A j \in 1..Len(filtered_patterns) :
            i < j => filtered_patterns[i].combined_score >= filtered_patterns[j].combined_score

(***************************************************************************)
(* Properties of the per-candidate analyses                                *)
(***************************************************************************)

\* the analysed line is five runs dark, light, dark, light, dark of lengths
\* k, k, 3k, k, k with k >= 2
PerfectFinderLine ==
    /\ pc = "line_analysed"
    /\ \E k \in 2..(MaxMult * MaxUnit) :
          line_pixels = run_pixels(<<1, 1, 3, 1, 1>>, k, 0)

\* C11: a line of five runs dark, light, dark, light, dark of lengths
\* k, k, 3k, k, k (k >= 2) is analysed with ratios exactly
\* [1/8, 1/8, 3/8, 1/8, 1/8], all deviations 0 and score exactly 1.0
C11_PerfectLineRatiosAndScore ==
    PerfectFinderLine =>
        /\ "ratios" \in DOMAIN analysis_result
        /\ analysis_result.ratios = <<SCALE \div 8, SCALE \div 8, (3 * SCALE) \div 8,
                               SCALE \div 8, SCALE \div 8>>
        /\ analysis_result.deviations = <<0, 0, 0, 0, 0>>
        /\ analysis_result.score = SCALE

\* the region analyze_pattern_symmetry extracts for the analysed candidate
SymHalf == Min2(region.radius * 2, 40) \div 2
SymX1 == Max2(0, region.cx - SymHalf)
SymY1 == Max2(0, region.cy - SymHalf)
SymX2 == Min2(image_width(binary_image), region.cx + SymHalf)
SymY2 == Min2(image_height(binary_image), region.cy + SymHalf)

SymmetryAnalysed == pc = "symmetry" /\ "combined_symmetry" \in DOMAIN analysis_result

\* the mirrored pixel pairs of the two directions and how many of them differ
HPairs == ((SymX2 - SymX1) \div 2) * (SymY2 - SymY1)
VPairs == (SymX2 - SymX1) * ((SymY2 - SymY1) \div 2)
HDiff == horizontal_differences(binary_image, SymX1, SymY1, SymX2, SymY2)
VDiff == vertical_differences(binary_image, SymX1, SymY1, SymX2, SymY2)

\* the averaged similarity is SameTwice / PairsTwice
SameTwice == (HPairs - HDiff) * VPairs + (VPairs - VDiff) * HPairs
PairsTwice == 2 * HPairs * VPairs

EqualSimilarities == HDiff * VPairs = VDiff * HPairs

\* C12 as stated: the averaged similarity s is quantized with inclusive lower
\* bounds, s >= 0.8 -> 1.0, s >= 0.7 -> 0.8, s >= 0.6 -> 0.6, s >= 0.5 -> 0.4,
\* otherwise 0; a region with exactly 20% differing pairs scores 1.0, one with
\* exactly 50% scores 0.4
C12_InclusiveSymmetryBands ==
    SymmetryAnalysed =>
        analysis_result.score =
            (IF 10 * SameTwice >= 8 * PairsTwice THEN 1000
             ELSE IF 10 * SameTwice >= 7 * PairsTwice THEN 800
             ELSE IF 10 * SameTwice >= 6 * PairsTwice THEN 600
             ELSE IF 10 * SameTwice >= 5 * PairsTwice THEN 400
             ELSE 0)

\* C12 amended: the lower bounds are strict, s > 0.8 -> 1.0, s > 0.7 -> 0.8,
\* s > 0.6 -> 0.6, s > 0.5 -> 0.4, otherwise 0; a region in which exactly 20%
\* of the mirrored pairs differ in each direction scores 0.8, one in which
\* exactly 50% differ in each direction scores 0
C12_StrictSymmetryBands ==
    SymmetryAnalysed =>
        LET s10 == 10 * SameTwice
            score == analysis_result.score
        IN  /\ s10 > 8 * PairsTwice => score = 1000
            /\ (s10 < 8 * PairsTwice /\ s10 > 7 * PairsTwice) => score = 800
            /\ (s10 < 7 * PairsTwice /\ s10 > 6 * PairsTwice) => score = 600
            /\ (s10 < 6 * PairsTwice /\ s10 > 5 * PairsTwice) => score = 400
            /\ s10 < 5 * PairsTwice => score = 0
            /\ EqualSimilarities =>
                  /\ s10 = 8 * PairsTwice => score = 800
                  /\ s10 = 7 * PairsTwice => score = 600
                  /\ s10 = 6 * PairsTwice => score = 400
                  /\ s10 = 5 * PairsTwice => score = 0
            /\ (5 * HDiff = HPairs /\ 5 * VDiff = VPairs) => score = 800
            /\ (2 * HDiff = HPairs /\ 2 * VDiff = VPairs) => score = 0

C12_Witness ==
    /\ SymmetryAnalysed
    /\ 5 * HDiff = HPairs
    /\ 5 * VDiff = VPairs
    /\ analysis_result.score = 800

\* the extracted region is not clipped by the image border, is at least
\* 10 x 10 and is its own mirror image across both middle axes
UnclippedRegion ==
    /\ SymX1 = region.cx - SymHalf /\ SymX2 = region.cx + SymHalf
    /\ SymY1 = region.cy - SymHalf /\ SymY2 = region.cy + SymHalf
    /\ SymX2 - SymX1 >= 10 /\ SymY2 - SymY1 >= 10

MirrorSymmetricRegion ==
    \A x \in SymX1..(SymX2 - 1), y \in SymY1..(SymY2 - 1) :
        /\ pixel(binary_image, y, x) = pixel(binary_image, y, SymX1 + SymX2 - 1 - x)
        /\ pixel(binary_image, y, x) = pixel(binary_image, SymY1 + SymY2 - 1 - y, x)

\* C13: a candidate whose extracted region (at least 10 x 10, not clipped) is
\* an exact mirror image of itself across both middle axes gets
\* horizontal_similarity = 1, vertical_similarity = 1 and score 1.0
C13_MirrorSymmetricScoresOne ==
    (pc = "symmetry" /\ UnclippedRegion /\ MirrorSymmetricRegion) =>
        /\ "horizontal_similarity" \in DOMAIN analysis_result
        /\ analysis_result.horizontal_similarity = SCALE
        /\ analysis_result.vertical_similarity = SCALE
        /\ analysis_result.score = SCALE

\* a symmetric region that is not uniform has been analysed
C13_Witness ==
    /\ pc = "symmetry"
    /\ UnclippedRegion
    /\ MirrorSymmetricRegion
    /\ pixel(binary_image, SymY1, SymX1) # pixel(binary_image, region.cy, region.cx)
    /\ analysis_result.score = SCALE

\* the radii of check_strict_concentric_structure before any scaling
BaseRadius == (region.radius * 2) \div 14
CenterRadius == Max2(2, BaseRadius)
FirstRingR == Max2(4, BaseRadius * 3)
SecondRingR == Max2(6, BaseRadius * 6)

CenterInImage ==
    /\ 0 <= region.cx /\ region.cx < image_width(binary_image)
    /\ 0 <= region.cy /\ region.cy < image_height(binary_image)

MaxSafeRadius ==
    Min2(Min2(region.cx, region.cy),
         Min2(image_width(binary_image) - region.cx - 1,
              image_height(binary_image) - region.cy - 1))

\* every pixel within the center radius is dark, every sample of the first
\* ring is light and every sample of the second ring is dark
PerfectBullseye ==
    /\ \A dx \in (-CenterRadius)..CenterRadius, dy \in (-CenterRadius)..CenterRadius :
          dx * dx + dy * dy <= CenterRadius * CenterRadius
              => pixel(binary_image, region.cy + dy, region.cx + dx) < 127
    /\ \A k \in 1..72 :
          LET p == ring_points(region.cx, region.cy, FirstRingR)[k]
          IN  pixel(binary_image, p[2], p[1]) >= 127
    /\ \A k \in 1..72 :
          LET p == ring_points(region.cx, region.cy, SecondRingR)[k]
          IN  pixel(binary_image, p[2], p[1]) < 127

\* C14: for a candidate far enough from the border that no radius is scaled,
\* a perfect bullseye (center dark, first ring light, second ring dark) gets a
\* score >= 0.95 and no rejection reason
C14_PerfectBullseyeAccepted ==
    (pc = "concentric" /\ CenterInImage /\ SecondRingR <= MaxSafeRadius /\ PerfectBullseye) =>
        /\ analysis_result.score >= 950
        /\ "reason" \notin DOMAIN analysis_result

C14_Witness ==
    /\ pc = "concentric"
    /\ CenterInImage
    /\ SecondRingR <= MaxSafeRadius
    /\ PerfectBullseye
    /\ analysis_result.score >= 950

\* C15: the score of check_strict_concentric_structure is either 0 with a
\* reason recorded or lies in [0.6, 1.0]; it is the weighted sum
\* 0.25 * center + 0.50 * first ring + 0.25 * second ring of the component
\* scores whenever that sum is >= 0.6, and never lies strictly between 0 and 0.6
C15_ConcentricScoreRange ==
    pc = "concentric" =>
        /\ \/ (analysis_result.score = 0 /\ "reason" \in DOMAIN analysis_result)
           \/ (600 <= analysis_result.score /\ analysis_result.score <= SCALE)
        /\ ~(0 < analysis_result.score /\ analysis_result.score < 600)
        /\ "component_scores" \in DOMAIN analysis_result =>
              LET c == analysis_result.component_scores
                  weighted == (c.center * 25 + c.first_ring * 50 + c.second_ring * 25) \div 100
              IN  weighted >= 600 => analysis_result.score = weighted

\* a candidate whose weighted sum is positive but below the floor was rejected
C15_Witness ==
    /\ pc = "concentric"
    /\ "component_scores" \in DOMAIN analysis_result
    /\ analysis_result.quality_score > 0
    /\ analysis_result.quality_score < 600
    /\ analysis_result.score = 0
    /\ "reason" \in DOMAIN analysis_result

\* C16: wherever radii are reported they are strictly increasing and none
\* exceeds min(cx, cy, w - cx - 1, h - cy - 1), also after scaling down
C16_RadiiIncreasingAndSafe ==
    pc = "concentric" =>
        /\ "radii_used" \in DOMAIN analysis_result =>
              LET r == analysis_result.radii_used
              IN  /\ r.center < r.first
                  /\ r.first < r.second
                  /\ r.second <= MaxSafeRadius
        /\ "rings" \in DOMAIN analysis_result =>
              /\ analysis_result.rings[1].radius < analysis_result.rings[2].radius
              /\ analysis_result.rings[2].radius <= MaxSafeRadius
              /\ analysis_result.radii_used.center < analysis_result.rings[1].radius

\* radii that were scaled down near the border are reported
C16_Witness ==
    /\ pc = "concentric"
    /\ "radii_used" \in DOMAIN analysis_result
    /\ SecondRingR > MaxSafeRadius
    /\ analysis_result.radii_used.second = MaxSafeRadius
    /\ analysis_result.radii_used.first < FirstRingR

\* the per-direction line scores of the analysed candidate that are non-zero
NonZeroLineScores ==
    SelectSeq([i \in 1..Len(analysis_result.line_results) |-> analysis_result.line_results[i].score],
              LAMBDA v : v # 0)

\* the mean of the non-zero line scores, 0 when there is none
LineScore ==
    IF NonZeroLineScores = <<>> THEN 0 ELSE SumSeq(NonZeroLineScores) \div Len(NonZeroLineScores)

\* C17: the structure score is 0.40 * concentric + 0.40 * line + 0.20 * symmetry
\* with line the mean of the non-zero per-direction line scores (0 when there
\* is none); it lies in [0, 1]; the candidate is kept only if the score is
\* strictly greater than 0.5, a score of exactly 0.5 is rejected
C17_StructureScoreAndAcceptance ==
    pc = "candidate" =>
        /\ 0 <= analysis_result.score /\ analysis_result.score <= SCALE
        /\ "concentric" \in DOMAIN analysis_result =>
              analysis_result.score =
                  (analysis_result.concentric.score * 40 + LineScore * 40
                   + analysis_result.symmetry.score * 20) \div 100
        /\ (patterns # <<>>) <=> (analysis_result.score > 500)
        /\ patterns # <<>> => (Len(patterns) = 1 /\ patterns[1].score = analysis_result.score)

\* a candidate whose three analyses fuse to exactly 0.5 was rejected
C17_Witness ==
    /\ pc = "candidate"
    /\ "concentric" \in DOMAIN analysis_result
    /\ analysis_result.score = 500
    /\ analysis_result.concentric.score > 0
    /\ patterns = <<>>

(***************************************************************************)
(* Properties of the grid sampling                                         *)
(***************************************************************************)
GridRows == 0..(grid_size.grid_h - 1)

GridColumns == 0..(grid_size.grid_w - 1)

WarpedAxis == 0..(target_size - 1)

\* the number of white pixels of cell (i, j), counted pixel column by pixel
\* column and pixel row by pixel row
WhiteInCell(i, j) ==
    LET b == cell_bounds(grid_size, i, j)
    IN  Cardinality({x \in WarpedAxis : b.x1 <= x /\ x < b.x2
                                        /\ warped_pixel(binary_image, 0, x) = 255})
        * Cardinality({y \in WarpedAxis : b.y1 <= y /\ y < b.y2
                                          /\ warped_pixel(binary_image, y, 0) = 255})

\* C20: for every grid size (W, H) the W * H sampled cell rectangles are
\* equal-sized, pairwise disjoint and together cover every pixel of the
\* 420 x 420 warped image, and each cell's bit is 1 exactly when the mean of
\* its pixels is > 127.  The cells are the products of the column intervals
\* [x1, x2) and the row intervals [y1, y2), so they are disjoint when the
\* column intervals and the row intervals are, and they cover the image when
\* the column intervals cover every x and the row intervals every y.
C20_CellsPartitionWarpedImage ==
    pc = "grid_extracted" =>
        /\ \A i \in GridRows : \A j \in GridColumns :
              LET b == cell_bounds(grid_size, i, j)
                  b0 == cell_bounds(grid_size, 0, 0)
              IN  /\ b.x2 <= target_size /\ b.y2 <= target_size
                  /\ b.x2 - b.x1 = b0.x2 - b0.x1
                  /\ b.y2 - b.y1 = b0.y2 - b0.y1
                  /\ b.x2 > b.x1 /\ b.y2 > b.y1
                  /\ grid_values[i][j] =
                        (IF 255 * WhiteInCell(i, j)
                               > 127 * (b.x2 - b.x1) * (b.y2 - b.y1) THEN 1 ELSE 0)
        /\ \A j \in GridColumns : \A k \in GridColumns :
              j < k => cell_bounds(grid_size, 0, j).x2 <= cell_bounds(grid_size, 0, k).x1
        /\ \A i \in GridRows : \A k \in GridRows :
              i < k => cell_bounds(grid_size, i, 0).y2 <= cell_bounds(grid_size, k, 0).y1
        /\ \A x \in WarpedAxis : \E j \in GridColumns :
              cell_bounds(grid_size, 0, j).x1 <= x /\ x < cell_bounds(grid_size, 0, j).x2
        /\ \A y \in WarpedAxis : \E i \in GridRows :
              cell_bounds(grid_size, i, 0).y1 <= y /\ y < cell_bounds(grid_size, i, 0).y2

(***************************************************************************)
(* Properties of the deduplication                                         *)
(***************************************************************************)
PairwiseDistinctScores(s) ==
    \A i \in 1..Len(s) : \A j \in 1..Len(s) : i # j => s[i].score # s[j].score

PermutationsOf(n) == {f \in [1..n -> 1..n] : {f[i] : i \in 1..n} = 1..n}

SetOf(s) == {s[i] : i \in 1..Len(s)}

\* C25: for every permutation of the same input list with pairwise distinct
\* scores, remove_duplicate_patterns returns the same set of patterns.
C25_DedupeOrderIndependent ==
    (pc = "unique" /\ PairwiseDistinctScores(patterns)) =>
        \A f \in PermutationsOf(Len(patterns)) :
            SetOf(remove_duplicate_patterns([i \in 1..Len(patterns) |-> patterns[f[i]]]))
                = SetOf(unique_patterns)

DedupeTrace == remove_duplicate_trace(patterns, 1, <<>>, <<>>)

MaxScore(s) == CHOOSE m \in {s[i].score : i \in 1..Len(s)} : \A i \in 1..Len(s) : s[i].score <= m

\* C26: for every non-empty input list, the list returned by
\* remove_duplicate_patterns contains a pattern whose score is the maximum
\* score of the input, and every pattern dropped was, at the moment it was
\* dropped, within 20 px of a retained pattern with a score >= its own.
C26_BestKeptAndDropsCovered ==
    (pc = "unique" /\ patterns # <<>>) =>
        /\ DedupeTrace.unique = unique_patterns
        /\ \E i \in 1..Len(unique_patterns) : unique_patterns[i].score = MaxScore(patterns)
        /\ \A i \in 1..Len(DedupeTrace.dropped) :
              LET d == DedupeTrace.dropped[i]
              IN  /\ SqCenterDist(d.pattern, d.retained) < duplicate_distance * duplicate_distance
                  /\ d.retained.score >= d.pattern.score
        /\ Len(unique_patterns) + Len(DedupeTrace.dropped) = Len(patterns)

\* a kept pattern was replaced by a better one and a later pattern was dropped
\* against a kept one
C26_Witness ==
    /\ pc = "unique"
    /\ Len(patterns) >= 3
    /\ \E i \in 1..Len(DedupeTrace.dropped) :
          DedupeTrace.dropped[i].retained.score > DedupeTrace.dropped[i].pattern.score
          /\ DedupeTrace.dropped[i].pattern = patterns[1]
    /\ \E i \in 1..Len(DedupeTrace.dropped) :
          DedupeTrace.dropped[i].retained.score = DedupeTrace.dropped[i].pattern.score
          /\ DedupeTrace.dropped[i].retained.center # DedupeTrace.dropped[i].pattern.center
    /\ Len(unique_patterns) >= 2

(***************************************************************************)
(* Properties of the acceptance of the concentric test                     *)
(***************************************************************************)
\* C23: whenever check_strict_concentric_structure returns a non-zero score
\* the center is at least 70% dark, the first ring is majority light (dark
\* ratio < 0.5) and the second ring is majority dark (dark ratio >= 0.5).
C23_AcceptedRingsAlternate ==
    (pc = "concentric" /\ analysis_result.score # 0) =>
        /\ analysis_result.center_dark_ratio >= 700
        /\ 2 * analysis_result.rings[1].dark_count < analysis_result.rings[1].total_pixels
        /\ 2 * analysis_result.rings[2].dark_count >= analysis_result.rings[2].total_pixels

\* C30: every candidate that find_qr_patterns_multi_threshold accepts passed
\* the concentric ring test: its analysis.concentric.score is non-zero, and a
\* candidate whose concentric analysis was rejected (score 0 with a reason) is
\* never in the pattern list.
C30_AcceptedPassedConcentricTest ==
    pc = "candidate" =>
        \A i \in 1..Len(patterns) :
            /\ patterns[i].analysis.concentric.score # 0
            /\ "reason" \notin DOMAIN patterns[i].analysis.concentric

\* C30 amended: every accepted candidate has a composite score > 0.5; its
\* concentric score may be 0: a candidate whose concentric analysis was
\* rejected is accepted when 0.40 * line + 0.20 * symmetry alone exceed 0.5,
\* which takes a line score above 0.75.
C30_AcceptedOnCompositeOnly ==
    pc = "candidate" =>
        \A i \in 1..Len(patterns) :
            /\ patterns[i].score > 500
            /\ patterns[i].analysis.concentric.score = 0 =>
                  /\ 40 * patterns[i].analysis.line_pattern_score
                        + 20 * patterns[i].analysis.symmetry_score > 50 * SCALE
                  /\ 4 * patterns[i].analysis.line_pattern_score > 3 * SCALE

\* a candidate rejected by the concentric test, with its reason, was accepted
C30_Witness ==
    /\ pc = "candidate"
    /\ patterns # <<>>
    /\ patterns[1].analysis.concentric.score = 0
    /\ "reason" \in DOMAIN patterns[1].analysis.concentric

(***************************************************************************)
(* Properties of the validators and of the production analysis             *)
(***************************************************************************)
\* C27: no validator accepts a degenerate geometry: whenever the
\* three-pattern or the production validate_qr_geometry reports valid for a
\* role assignment and its computed fourth corner, the three pattern centers
\* are not collinear and the quadrilateral's shoelace area is greater than 0.
C27_NoDegenerateGeometryValid ==
    (/\ pc = "validated"
     /\ validation.analyzer \in {"three", "production"}
     /\ validation.valid)
    => /\ ~Collinear(positions.top_left.center, positions.top_right.center,
                     positions.bottom_left.center)
       /\ validation.measurements.area > 0

\* the triple <<ps[i], ps[j], ps[k]>> of the given patterns passes every
\* production criterion
TriplePasses(t) ==
    production_validate_qr_geometry(
        combination_for(<<patterns[t[1]], patterns[t[2]], patterns[t[3]]>>))

IndexTriples ==
    {t \in (1..Len(patterns)) \X (1..Len(patterns)) \X (1..Len(patterns)) :
        t[1] < t[2] /\ t[2] < t[3]}

\* C22: analyze_image returns 'insufficient_patterns' exactly when fewer than
\* 3 patterns are given; for 3 or more it always selects a triple of the given
\* patterns and returns 'success' exactly when validate_qr_geometry accepts
\* that triple and 'validation_failed' otherwise; 'no_valid_combination' is
\* never returned.
C22_TerminalFailuresOnlyAsStated ==
    pc = "analysed" =>
        /\ validation.status # "no_valid_combination"
        /\ (validation.status = "insufficient_patterns") <=> (Len(patterns) < 3)
        /\ Len(patterns) >= 3 =>
              /\ \E t \in IndexTriples :
                    validation.selected_patterns
                        = <<patterns[t[1]], patterns[t[2]], patterns[t[3]]>>
              /\ positions = identify_pattern_positions(validation.selected_patterns)
              /\ fourth_corner = calculate_fourth_corner(positions)
              /\ LET accepted ==
                         production_validate_qr_geometry(
                             combination_of(validation.selected_patterns, positions,
                                            fourth_corner))
                 IN  /\ (validation.status = "success") <=> accepted
                     /\ (validation.status = "validation_failed") <=> ~accepted

\* of four patterns a triple was selected and failed the validation
C22_Witness ==
    /\ pc = "analysed"
    /\ Len(patterns) = 4
    /\ validation.status = "validation_failed"
    /\ validation.selected_patterns # SubSeq(patterns, 1, 3)

ScoreRaises == {50, 100}

raise_score(p, d) == [p EXCEPT !.score = @ + d]

\* flexible_pattern_analyzer.score_pattern_combination of the selected triple
\* with every detection score raised by d
FlexibleScoreRaised(d) ==
    flexible_score_pattern_combination(
        [i \in 1..3 |-> raise_score(validation.selected_patterns[i], d)], fourth_corner)

\* production_qr_analyzer.score_pattern_combination of the selected triple
\* with every detection score raised by d
ProductionScoreRaised(d) ==
    score_pattern_combination(
        [i \in 1..3 |-> raise_score(validation.selected_patterns[i], d)],
        [top_left    |-> raise_score(positions.top_left, d),
         bottom_left |-> raise_score(positions.bottom_left, d),
         top_right   |-> raise_score(positions.top_right, d)],
        fourth_corner)

\* C24: for patterns in the shape written by the detector (quality under the
\* key 'score'), with the three centers unchanged, raising the patterns'
\* average detection score by d raises the combination score by 0.10 * d in
\* the production analyzer and by 0.25 * d in the flexible analyzer.
C24_CombinationScoreFollowsDetectionScore ==
    (pc = "analysed" /\ Len(patterns) >= 3) =>
        \A d \in ScoreRaises :
            /\ ProductionScoreRaised(d) = ProductionScoreRaised(0) + d \div 10
            /\ FlexibleScoreRaised(d) = FlexibleScoreRaised(0) + d \div 4

\* C28: when 4 or more patterns are given and at least one triple satisfies
\* all production validation criteria, the returned status is 'success'.
C28_ValidTripleMeansSuccess ==
    (pc = "analysed" /\ Len(patterns) >= 4 /\ \E t \in IndexTriples : TriplePasses(t))
        => validation.status = "success"

(***************************************************************************)
(* Properties of the border cells                                          *)
(***************************************************************************)
BorderLists ==
    analysis_result.border_cells.top \o analysis_result.border_cells.bottom
        \o analysis_result.border_cells.left \o analysis_result.border_cells.right

\* the number of entries of the cell list with position (i, j)
TimesTagged(cells, i, j) ==
    Cardinality({k \in 1..Len(cells) : cells[k].position = <<i, j>>})

OnPerimeter(i, j) ==
    i = 0 \/ i = grid_size.grid_h - 1 \/ j = 0 \/ j = grid_size.grid_w - 1

IsCornerCell(i, j) ==
    (i = 0 \/ i = grid_size.grid_h - 1) /\ (j = 0 \/ j = grid_size.grid_w - 1)

\* C21: for every grid size with W >= 2 and H >= 2, extract_border_cells tags
\* every perimeter cell in exactly one of the lists top, bottom, left, right
\* (top and bottom hold the full rows of W cells, left and right the H-2
\* non-corner cells of their column), tags no interior cell, puts exactly the
\* four corner cells, each once, in 'corners', and reports
\* total_border_cells = 2W + 2(H-2).
C21_BorderCellsTaggedOnce ==
    (pc = "border_extracted" /\ grid_size.grid_w >= 2 /\ grid_size.grid_h >= 2) =>
        LET b == analysis_result.border_cells
            W == grid_size.grid_w
            H == grid_size.grid_h
        IN  /\ \A i \in GridRows : \A j \in GridColumns :
                  /\ TimesTagged(BorderLists, i, j) = (IF OnPerimeter(i, j) THEN 1 ELSE 0)
                  /\ TimesTagged(b.corners, i, j) = (IF IsCornerCell(i, j) THEN 1 ELSE 0)
            /\ Len(b.top) = W /\ \A j \in GridColumns : TimesTagged(b.top, 0, j) = 1
            /\ Len(b.bottom) = W /\ \A j \in GridColumns : TimesTagged(b.bottom, H - 1, j) = 1
            /\ Len(b.left) = H - 2
            /\ \A i \in 1..(H - 2) : TimesTagged(b.left, i, 0) = 1
            /\ Len(b.right) = H - 2
            /\ \A i \in 1..(H - 2) : TimesTagged(b.right, i, W - 1) = 1
            /\ Len(b.corners) = 4
            /\ analysis_result.summary.total_border_cells = 2 * W + 2 * (H - 2)

\* the border of a grid with interior cells and non-corner column cells
C21_Witness ==
    /\ pc = "border_extracted"
    /\ grid_size.grid_w = 5 /\ grid_size.grid_h = 4
    /\ Len(analysis_result.border_cells.left) = 2
    /\ analysis_result.summary.total_border_cells = 14

\* C29: for the same image and grid size, every border cell's 'value' at
\* position (i, j) equals grid_values[i][j] returned by extract_grid_cells.
C29_BorderValuesAgreeWithGrid ==
    (pc = "border_extracted" /\ grid_values # None) =>
        \A k \in 1..Len(BorderLists \o analysis_result.border_cells.corners) :
            LET c == (BorderLists \o analysis_result.border_cells.corners)[k]
            IN  c.value = grid_values[c.position[1]][c.position[2]]

====
